---- MODULE Spec2Model ----
(***************************************************************************)
(* Model of the Hyperion storage engine's node decoder, value accessors,   *)
(* path-compressed leaf routines and container expansion                   *)
(* (src/hyperion/components/node_header.rs, context.rs).                   *)
(*                                                                         *)
(* Memory is one arena segment of bytes.  A pointer is a byte address; the *)
(* Rust pointer method p.add(n) advances by n * size_of::<T>() bytes, so   *)
(* every pointer step below carries the size of its pointee type.          *)
(***************************************************************************)
EXTENDS Integers, Sequences, FiniteSets, TLC

VARIABLES
    mem,                     \* the arena segment: address -> byte
    container,               \* Container header of the root container: size, free_bytes
    ctx,                     \* ContainerTraversalContext
    ocx,                     \* OperationContext: header bits, key cursor, values
    jump_context,            \* OperationContext.jump_context
    jump_table_sub_context,  \* OperationContext.jump_table_sub_context
    etc,                     \* OperationContext.embedded_traversal_context
    node,                    \* the Box<NodeHeader> the caller holds (an address)
    keybuf,                  \* the bytes ocx.key points at, and the bytes behind them
    ejected,                 \* the container a call of eject_container has allocated
    call,                    \* the last call: its name, arguments, entry snapshot and result
    steps                    \* number of calls made

vars == <<mem, container, ctx, ocx, jump_context, jump_table_sub_context, etc,
          node, keybuf, ejected, call, steps>>

(***************************************************************************)
(* Bounds of the model.                                                    *)
(***************************************************************************)
MemTop == 256        \* the segment holds addresses 0 .. MemTop-1
MaxSteps == 2        \* calls per behaviour

Addr == 0 .. (MemTop - 1)

\* the two addresses the arena resolves the root container's handle to
RootBase == 16
OtherBase == 144

(***************************************************************************)
(* Type sizes and enum codes.                                              *)
(***************************************************************************)
SizeofNodeHeader == 1                 \* union of two one-byte bit fields
SizeofPathCompressedNodeHeader == 1   \* #[bitfield(u8)]
SizeofChar == 4                       \* Rust char: a 32-bit scalar value
SizeofCVoid == 1                      \* std::ffi::c_void
SizeofU16 == 2
SizeofNodeValue == 8
SizeofContainer == 4
SizeofTopNodeJumpTable == 14
ContainerHeadSize == 4               \* Container::get_container_head_size, no jump table

Invalid == 0
InnerNode == 1
LeafNodeEmpty == 2
LeafNodeWithValue == 3

ChildNone == 0
ChildLink == 1
ChildEmbeddedContainer == 2
ChildPathCompressed == 3

\* ReturnCode
OK == "OK"
GetFailureNoLeaf == "GetFailureNoLeaf"

(***************************************************************************)
(* Bytes in memory.                                                        *)
(***************************************************************************)
RD(m, a) == IF a \in DOMAIN m THEN m[a] ELSE 0

WR(m, a, b) == [x \in DOMAIN m |-> IF x = a THEN b ELSE m[x]]

ReadBytes(m, a, n) == [i \in 1 .. n |-> RD(m, a + i - 1)]

WriteBytes(m, a, bs) ==
    [x \in DOMAIN m |-> IF x >= a /\ x < a + Len(bs) THEN bs[x - a + 1] ELSE m[x]]

\* p.add(count) on a pointer whose pointee has size elem
PtrAdd(p, count, elem) == p + count * elem

\* copy_memory_from(src, dst, n): the n bytes at src, delivered to dst
copy_memory_from(m, src, n) == ReadBytes(m, src, n)

\* copy_memory_to(dst, src, n): memory with the bytes of src stored at dst
copy_memory_to(m, dst, bytes) == WriteBytes(m, dst, bytes)

(***************************************************************************)
(* TopNode / SubNode header byte (the two views of NodeUnion share it).    *)
(*   [type_flag:2 | container_type:1 | delta:3 | jump_successor:1 |        *)
(*    jump_table:1]  and  [.. | delta:3 | child_container:2]               *)
(***************************************************************************)
type_flag(b) == b \div 64
container_type(b) == (b \div 32) % 2
delta(b) == (b \div 4) % 8
jump_successor(b) == (b \div 2) % 2
jump_table(b) == b % 2
child_container(b) == b % 4
is_top_node(b) == container_type(b) = 0
has_delta(b) == delta(b) # 0
set_type_flag(b, t) == t * 64 + (b % 64)
set_child_container(b, c) == (b \div 4) * 4 + c
set_jump_successor(b, j) == (b \div 4) * 4 + j * 2 + (b % 2)

NodeByte(t, ct, d, low) == t * 64 + ct * 32 + d * 4 + low

(***************************************************************************)
(* PathCompressedNodeHeader: #[bitfield(u8, order = Msb)] with size (7     *)
(* bits) declared first and value_present (1 bit) second.                  *)
(***************************************************************************)
pc_size(b) == b \div 2
value_present(b) == b % 2
set_value_present(b, v) == (b \div 2) * 2 + v
set_pc_size(b, s) == (s % 128) * 2 + (b % 2)
PCByte(s, vp) == s * 2 + vp

(***************************************************************************)
(* Offset calculus of NodeHeader.  n is the node's address.                *)
(***************************************************************************)
get_jump_overhead(m, n) ==
    jump_successor(RD(m, n)) * SizeofU16 + jump_table(RD(m, n)) * SizeofTopNodeJumpTable

get_leaf_size(m, n) ==
    IF type_flag(RD(m, n)) = LeafNodeWithValue THEN SizeofNodeValue ELSE 0

get_offset_child_container(m, n) ==
    IF delta(RD(m, n)) = 0
    THEN SizeofNodeHeader + 1 + get_leaf_size(m, n)
    ELSE SizeofNodeHeader + get_leaf_size(m, n)

get_offset_node_value(m, n) ==
    IF is_top_node(RD(m, n))
    THEN SizeofNodeHeader + get_jump_overhead(m, n)
    ELSE IF ~has_delta(RD(m, n)) THEN SizeofNodeHeader + 1 ELSE SizeofNodeHeader

get_offset_jump(m, n) ==
    IF ~has_delta(RD(m, n)) THEN SizeofNodeHeader + 1 ELSE SizeofNodeHeader

\* as_raw_compressed: self.as_raw().add(get_offset_child_container()) on *const NodeHeader
as_raw_compressed(m, n) == PtrAdd(n, get_offset_child_container(m, n), SizeofNodeHeader)

(***************************************************************************)
(* Values.  A NodeValue is SizeofNodeValue bytes; None is the empty tuple. *)
(***************************************************************************)
None == << >>
is_some(v) == v # None
Value(k) == [i \in 1 .. SizeofNodeValue |-> IF i = 1 THEN k ELSE IF i = 2 THEN k + 16 ELSE 0]

\* an optional pointer (Option<Box<T>>)
NoPtr == [some |-> FALSE, ptr |-> 0]
Ptr(a) == [some |-> TRUE, ptr |-> a]

\* no container has been ejected
NoEjected == [some |-> FALSE, base |-> 0, size |-> 0, free_bytes |-> 0]

(***************************************************************************)
(* NodeHeader::get_node_value_pc, get_node_value, set_node_value.          *)
(* m: memory, n: the node's address, o: the operation context.             *)
(* Each yields the return code and what the call leaves behind.            *)
(***************************************************************************)
get_node_value_pc(m, n, o) ==
    LET pc_head == as_raw_compressed(m, n)
        \* pc_head.as_raw_char().add(size_of::<PathCompressedNodeHeader>())
        src == PtrAdd(pc_head, SizeofPathCompressedNodeHeader, SizeofChar)
    IN  [rc  |-> OK,
         ocx |-> [o EXCEPT
                    !.return_value =
                        IF value_present(RD(m, pc_head)) > 0
                        THEN copy_memory_from(m, src, SizeofNodeValue)
                        ELSE @,
                    !.operation_done = 1]]

get_node_value_invalid_only(m, n, o) ==
    IF o.pathcompressed_child = 1
    THEN get_node_value_pc(m, n, o)
    ELSE LET top_node_type == type_flag(RD(m, n))
             src == PtrAdd(n, get_offset_node_value(m, n), SizeofChar)
         IN  IF top_node_type = Invalid
             THEN [rc |-> GetFailureNoLeaf, ocx |-> o]
             ELSE [rc  |-> OK,
                   ocx |-> [o EXCEPT
                              !.return_value =
                                  IF top_node_type = LeafNodeWithValue
                                  THEN copy_memory_from(m, src, SizeofNodeValue)
                                  ELSE @,
                              !.operation_done = 1]]

get_node_value(m, n, o) ==
    IF o.pathcompressed_child = 1
    THEN get_node_value_pc(m, n, o)
    ELSE LET top_node_type == type_flag(RD(m, n))
             \* self.as_raw_char().add(self.get_offset_node_value())
             src == PtrAdd(n, get_offset_node_value(m, n), SizeofChar)
         IN  IF top_node_type = InnerNode \/ top_node_type = Invalid
             THEN [rc |-> GetFailureNoLeaf, ocx |-> o]
             ELSE [rc  |-> OK,
                   ocx |-> [o EXCEPT
                              !.return_value =
                                  IF top_node_type = LeafNodeWithValue
                                  THEN copy_memory_from(m, src, SizeofNodeValue)
                                  ELSE @,
                              !.operation_done = 1]]

set_node_value_byte_offset(m, n, o) ==
    LET b   == RD(m, n)
        put == IF type_flag(b) = Invalid \/ type_flag(b) = InnerNode THEN 1 ELSE o.performed_put
        dst == PtrAdd(n, get_offset_node_value(m, n), SizeofNodeHeader)
        m1  == IF is_some(o.input_value) THEN copy_memory_to(m, dst, o.input_value) ELSE m
        t   == IF is_some(o.input_value) THEN LeafNodeWithValue ELSE LeafNodeEmpty
    IN  [rc  |-> OK,
         mem |-> WR(m1, n, set_type_flag(RD(m1, n), t)),
         ocx |-> [o EXCEPT !.performed_put = put, !.operation_done = 1]]

set_node_value(m, n, o) ==
    LET b   == RD(m, n)
        put == IF type_flag(b) = Invalid \/ type_flag(b) = InnerNode THEN 1 ELSE o.performed_put
        \* self.as_raw_char_mut().add(self.get_offset_node_value())
        dst == PtrAdd(n, get_offset_node_value(m, n), SizeofChar)
        m1  == IF is_some(o.input_value) THEN copy_memory_to(m, dst, o.input_value) ELSE m
        t   == IF is_some(o.input_value) THEN LeafNodeWithValue ELSE LeafNodeEmpty
    IN  [rc  |-> OK,
         mem |-> WR(m1, n, set_type_flag(RD(m1, n), t)),
         ocx |-> [o EXCEPT !.performed_put = put, !.operation_done = 1]]

(***************************************************************************)
(* Machine integers.  In a build without overflow checks a u32 subtraction *)
(* wraps modulo 2^32; read back `as i32` it is the signed difference of    *)
(* its operands (all operands here are far below 2^31), and stored in an   *)
(* 8-bit field only its residue modulo 256 remains.                        *)
(***************************************************************************)
WrappingSubAsI32(a, b) == a - b

(***************************************************************************)
(* Container and arena primitives (container.rs, memorymanager::api).      *)
(***************************************************************************)
CONTAINER_MAX_EMBEDDED_DEPTH == 28
ContainerSizeIncrement == 32

\* Container::increment_container_size(required_minimum): the size after
\* growing by required_minimum, rounded up to the size increment
increment_container_size(size, required_minimum) ==
    ((size + required_minimum + ContainerSizeIncrement - 1) \div ContainerSizeIncrement)
        * ContainerSizeIncrement

\* Container::set_free_size_left: free_bytes is an 8-bit field
set_free_size_left(c, v) == [c EXCEPT !.free_bytes = v % 256]

\* reallocate + get_pointer on success: the bytes kept are copied to the
\* address the handle resolves to afterwards
Relocate(m, old_base, new_base, old_size, new_size) ==
    LET keep == IF old_size < new_size THEN old_size ELSE new_size
    IN  IF new_base = old_base THEN m
        ELSE [x \in DOMAIN m |->
                IF x >= new_base /\ x < new_base + keep
                THEN m[old_base + (x - new_base)]
                ELSE m[x]]

\* write_bytes(p, 0, n)
ZeroFill(m, p, n) == [x \in DOMAIN m |-> IF x >= p /\ x < p + n THEN 0 ELSE m[x]]

\* the addresses a reallocated container may resolve to
NewBases(old_base) == {old_base, IF old_base = RootBase THEN OtherBase ELSE RootBase}

(***************************************************************************)
(* OperationContext::new_expand, new_expand_embedded, meta_expand.         *)
(* S: [mem, container, jump_context, jump_table_sub_context, etc];         *)
(* cx: the traversal context; required: bytes asked for.                   *)
(* Each yields the set of outcomes of the call.  status is "ok", or names  *)
(* the abort: "overflow" (arithmetic overflow check of a build with        *)
(* overflow checks), "assert", "bounds" (array index), "arena" (the arena  *)
(* failed to reallocate), "fault" (a write far outside the segment).       *)
(***************************************************************************)
Outcome(status, S, ret, realloc, old_size, new_size) ==
    [status |-> IF status = "ok" THEN OK ELSE status, S |-> S, ret |-> ret, realloc |-> realloc,
     old_size |-> old_size, new_size |-> new_size]

\* (root_container as *mut c_void).offset_from(top_node as *mut c_void)
sublevel_ref_toplevel_node_offset(S) ==
    IF S.jump_table_sub_context.top_node.some
    THEN S.etc.root_container - S.jump_table_sub_context.top_node.ptr
    ELSE 0

new_expand_node(S, cx) ==
    \* raw_container_pointer.add(ctx.current_container_offset) on *mut Container
    PtrAdd(S.etc.root_container, cx.current_container_offset, SizeofContainer)

new_expand_reallocates(free_space_left, required) == free_space_left > required

expanded_free_size_growth_only(new_size, old_size, free_space_left) == new_size - old_size

\* the argument of set_free_size_left after the reallocation
expanded_free_size(new_size, old_size, free_space_left) ==
    new_size - old_size + free_space_left

new_expand(S, cx, required) ==
    LET free_space_left == S.container.free_bytes
        sublevel == sublevel_ref_toplevel_node_offset(S)
        old_size == S.container.size
        new_size == increment_container_size(old_size, WrappingSubAsI32(required, free_space_left))
        S1 == [S EXCEPT !.container.size = new_size]
        Done(nb) ==
            LET S2 == [S1 EXCEPT
                         !.mem = Relocate(S.mem, S.etc.root_container, nb, old_size, new_size),
                         !.etc.root_container = nb,
                         !.container = set_free_size_left(@, expanded_free_size(new_size, old_size,
                                                                                free_space_left)),
                         !.jump_context.predecessor =
                             IF @.some
                             THEN Ptr(PtrAdd(nb, S.jump_context.top_node_predecessor_offset_absolute,
                                             SizeofContainer))
                             ELSE @,
                         !.jump_table_sub_context.top_node =
                             IF sublevel > 0
                             THEN Ptr(PtrAdd(nb, sublevel, SizeofContainer))
                             ELSE @]
            IN  Outcome("ok", S2, new_expand_node(S2, cx), TRUE, old_size, new_size)
    IN  IF new_expand_reallocates(free_space_left, required)
        THEN {Outcome("overflow", S, 0, FALSE, old_size, old_size)}
             \cup
             (IF S.etc.embedded_container_depth # 0
              THEN {Outcome("assert", S1, 0, FALSE, old_size, new_size)}
              ELSE {Outcome("arena", S1, 0, FALSE, old_size, new_size)}
                   \cup {Done(nb) : nb \in NewBases(S.etc.root_container)})
        ELSE {Outcome("ok", S, new_expand_node(S, cx), FALSE, old_size, old_size)}

new_expand_embedded_node(S, cx) ==
    \* (raw_container_pointer as *mut char).add(current_container_offset +
    \*                                          next_embedded_container_offset)
    PtrAdd(S.etc.root_container,
           cx.current_container_offset + S.etc.next_embedded_container_offset, SizeofChar)

\* the snapshot loop: entries 0 .. next_embedded_container_offset-1 of the local array
embedded_stack_snapshot(S) ==
    [j \in 1 .. CONTAINER_MAX_EMBEDDED_DEPTH |->
        IF j - 1 < S.etc.next_embedded_container_offset
        THEN S.etc.root_container - S.etc.embedded_stack[j]
        ELSE 0]

\* the rebase loop: entries 0 .. embedded_container_depth-1
embedded_stack_rebased(S, snap, nb) ==
    [j \in 1 .. CONTAINER_MAX_EMBEDDED_DEPTH |->
        IF j - 1 < S.etc.embedded_container_depth
        THEN PtrAdd(nb, snap[j], SizeofCVoid)
        ELSE S.etc.embedded_stack[j]]

new_expand_embedded(S, cx, required) ==
    LET free_space_left == S.container.free_bytes
        sublevel == sublevel_ref_toplevel_node_offset(S)
        old_size == S.container.size
        new_size == increment_container_size(old_size, WrappingSubAsI32(required, free_space_left))
        snap == embedded_stack_snapshot(S)
        \* increment_container_size, then root_container.set_free_size_left(0)
        S1 == [S EXCEPT !.container = set_free_size_left([@ EXCEPT !.size = new_size], 0)]
        Done(nb) ==
            LET m1 == Relocate(S.mem, S.etc.root_container, nb, old_size, new_size)
                S2 == [S1 EXCEPT
                         !.mem = ZeroFill(m1, nb + old_size, new_size - old_size),
                         !.etc.root_container = nb,
                         !.etc.next_embedded_container =
                             PtrAdd(nb, S.etc.next_embedded_container_offset, SizeofCVoid),
                         !.container = set_free_size_left(@, expanded_free_size(new_size, old_size,
                                                                                free_space_left)),
                         !.etc.embedded_stack = embedded_stack_rebased(S, snap, nb),
                         !.jump_context.predecessor =
                             IF @.some
                             THEN Ptr(PtrAdd(nb, S.jump_context.top_node_predecessor_offset_absolute,
                                             SizeofCVoid))
                             ELSE @,
                         !.jump_table_sub_context.top_node =
                             IF sublevel > 0
                             THEN Ptr(PtrAdd(nb, sublevel, SizeofCVoid))
                             ELSE @]
            IN  Outcome("ok", S2, new_expand_embedded_node(S2, cx), TRUE, old_size, new_size)
    IN  IF new_expand_reallocates(free_space_left, required)
        THEN IF S.etc.next_embedded_container_offset > CONTAINER_MAX_EMBEDDED_DEPTH
             THEN {Outcome("bounds", S, 0, FALSE, old_size, old_size)}
             ELSE {Outcome("overflow", S, 0, FALSE, old_size, old_size),
                   Outcome("arena", S1, 0, FALSE, old_size, new_size)}
                  \cup
                  (IF new_size < old_size
                   \* write_bytes(p_new, 0, (new_size - old_size) as usize), the count wrapped
                   THEN {Outcome("fault", [S1 EXCEPT !.etc.root_container = nb], 0, TRUE,
                                 old_size, new_size) : nb \in NewBases(S.etc.root_container)}
                   ELSE {Done(nb) : nb \in NewBases(S.etc.root_container)})
        ELSE {Outcome("ok", S, new_expand_embedded_node(S, cx), FALSE, old_size, old_size)}

meta_expand(S, cx, required) ==
    IF S.etc.embedded_container_depth = 0
    THEN new_expand(S, cx, required)
    ELSE new_expand_embedded(S, cx, required)

(***************************************************************************)
(* Container::wrap_shift_container and update_space_usage (container.rs).  *)
(***************************************************************************)
\* shift_container(target, bytes, tail_len): memmove the tail_len bytes at
\* target forward by bytes and zero the gap
shift_container(m, target, bytes, tail_len) ==
    [x \in DOMAIN m |->
        IF x >= target /\ x < target + bytes THEN 0
        ELSE IF x >= target + bytes /\ x < target + bytes + tail_len THEN m[x - bytes]
        ELSE m[x]]

\* the bytes of the container in use from target on
shift_tail_len(S, target) ==
    S.container.size - (S.container.free_bytes + (target - S.etc.root_container))

\* update_space_usage(by): bill by bytes to the container and to every
\* embedded container on the stack (an EmbeddedContainer is its one size byte)
update_space_usage(S, by) ==
    [S EXCEPT
       !.container.free_bytes = (@ - by) % 256,
       !.mem = [x \in DOMAIN S.mem |->
                  IF \E j \in 1 .. S.etc.embedded_container_depth : S.etc.embedded_stack[j] = x
                  THEN (S.mem[x] + by) % 256
                  ELSE S.mem[x]]]

(***************************************************************************)
(* update_path_compressed_node(node, ocx, ctx).  Yields the outcomes of    *)
(* the call: status, the state and operation context left, the node        *)
(* returned.                                                               *)
(***************************************************************************)
PCOutcome(status, S, o, ret) == [status |-> status, S |-> S, ocx |-> o, ret |-> ret]

\* the tail of the function, from the copy_memory_from call on
update_path_compressed_node_store(S, o, pc_node, value, ret) ==
    \* copy_memory_from(value, ocx.input_value, size_of::<NodeValue>())
    LET o1 == [o EXCEPT !.input_value = copy_memory_from(S.mem, value, SizeofNodeValue)]
    IN  PCOutcome(OK,
                  [S EXCEPT !.mem = WR(S.mem, pc_node, set_value_present(RD(S.mem, pc_node), 1))],
                  o1, ret)

update_path_compressed_node(S, n, o, cx) ==
    IF ~is_some(o.input_value)
    THEN {PCOutcome(OK, S, o, n)}
    ELSE
      LET pc_node == as_raw_compressed(S.mem, n)
          value   == PtrAdd(pc_node, SizeofPathCompressedNodeHeader, SizeofCVoid)
      IN  IF value_present(RD(S.mem, pc_node)) = 0
          THEN
            { IF e.status # OK
              THEN PCOutcome(e.status, e.S, o, n)
              ELSE
                LET tail == shift_tail_len(e.S, value)
                IN  IF tail < 0
                    THEN PCOutcome("fault", e.S, o, n)
                    ELSE
                      LET S1 == [e.S EXCEPT
                                   !.mem = shift_container(@, value, SizeofNodeValue, tail)]
                          S2 == update_space_usage(S1, SizeofNodeValue)
                          pc_node1 == as_raw_compressed(S2.mem, e.ret)
                          value1 == PtrAdd(pc_node1, SizeofPathCompressedNodeHeader, SizeofCVoid)
                      IN  update_path_compressed_node_store(S2, o, pc_node1, value1, e.ret)
              : e \in new_expand(S, cx, SizeofNodeValue) }
          ELSE {update_path_compressed_node_store(S, o, pc_node, value, n)}

(***************************************************************************)
(* NodeHeader::compare_path_compressed_node.  kb: the key buffer; o.key is *)
(* the index in it that ocx.key points at.  Yields the outcomes: a status  *)
(* and the result.                                                         *)
(***************************************************************************)
KeyByte(kb, i) == IF i + 1 \in DOMAIN kb THEN kb[i + 1] ELSE 0

\* op_key.add_get(2) on a pointer to char
compare_key_start(o) == PtrAdd(o.key, 2, SizeofChar)

compare_path_compressed_node(m, n, o, kb) ==
    LET pc_header == as_raw_compressed(m, n)
        overhead  == SizeofPathCompressedNodeHeader
                       + value_present(RD(m, pc_header)) * SizeofNodeValue
        key_len   == (pc_size(RD(m, pc_header)) - overhead) % 256
        key       == PtrAdd(pc_header, overhead, SizeofPathCompressedNodeHeader)
        equal     == \A i \in 0 .. key_len - 1 :
                        KeyByte(kb, compare_key_start(o) + i) = RD(m, key + i)
        result    == IF o.key_len_left - 2 # key_len THEN FALSE ELSE equal
    IN  IF pc_size(RD(m, pc_header)) < overhead
        THEN {[status |-> "overflow", result |-> FALSE], [status |-> OK, result |-> result]}
        ELSE {[status |-> OK, result |-> result]}

(***************************************************************************)
(* The record of a call.                                                   *)
(***************************************************************************)
Entry(o) == [mem |-> mem, container |-> container, ctx |-> ctx, ocx |-> o,
             jump_context |-> jump_context,
             jump_table_sub_context |-> jump_table_sub_context,
             etc |-> etc, node |-> node]

Brief(c) == [op |-> c.op, node |-> c.node, input_value |-> c.entry.ocx.input_value]

NoCall == [op |-> "none", node |-> 0, rc |-> OK, x |-> [none |-> 0],
           prev |-> [op |-> "none", node |-> 0, input_value |-> None],
           entry |-> [ocx |-> [input_value |-> None]]]

Call(op, n, rc, o, x) ==
    [op |-> op, node |-> n, rc |-> rc, x |-> x, prev |-> Brief(call), entry |-> Entry(o)]

(***************************************************************************)
(* Initial states: a root container at RootBase holding one node at        *)
(* current_container_offset, every header byte the decoder distinguishes.  *)
(***************************************************************************)

Fill(a) == (a * 7 + 3) % 251

InputValues == {None, Value(1), Value(2)}
ReturnInit == Value(200)

HeaderBytes ==
    {NodeByte(t, ct, d, low) : t \in 0 .. 3, ct \in 0 .. 1, d \in 0 .. 7, low \in 0 .. 3}

NodeOffsets == {4, 7}

\* PathCompressedEjectionContext::default(); partial_key is [char; 127], held
\* here as its bytes
PartialKeyLen == 127
PathCompressedEjectionContextDefault ==
    [node_value |-> [i \in 1 .. SizeofNodeValue |-> 0],
     partial_key |-> [i \in 1 .. PartialKeyLen * SizeofChar |-> 0],
     pec_valid |-> 0,
     path_compressed_node_header |-> 0]

\* ocx.path_compressed_ejection_context = None
NoPec == [some |-> FALSE, pec |-> PathCompressedEjectionContextDefault]

Ocx0 == [operation_done |-> 0, performed_put |-> 0, pathcompressed_child |-> 0,
         next_container_valid |-> 0, key_len_left |-> 0, key |-> 0,
         input_value |-> None, return_value |-> ReturnInit,
         next_container_pointer |-> NoPtr,
         path_compressed_ejection_context |-> NoPec]

Ctx0 == [current_container_offset |-> ContainerHeadSize, first_char |-> 65, second_char |-> 66]

JumpContext0 == [predecessor |-> NoPtr, top_node_predecessor_offset_absolute |-> 0,
                 sub_nodes_seen |-> 0]

JumpTableSubContext0 == [top_node |-> NoPtr, root_container_sub_char_set |-> 0,
                         root_container_sub_char |-> 0]

Etc0 == [root_container |-> RootBase, next_embedded_container |-> RootBase,
         embedded_stack |-> [j \in 1 .. CONTAINER_MAX_EMBEDDED_DEPTH |-> 0], next_embedded_container_offset |-> 0,
         embedded_container_depth |-> 0]

InitNode ==
    \E hb \in HeaderBytes, off \in NodeOffsets, done \in 0 .. 1 :
        /\ mem = [a \in Addr |-> IF a = RootBase + off THEN hb ELSE Fill(a)]
        /\ container = [size |-> 64, free_bytes |-> 8]
        /\ ctx = [Ctx0 EXCEPT !.current_container_offset = off]
        /\ ocx = [Ocx0 EXCEPT !.operation_done = done]
        /\ jump_context = JumpContext0
        /\ jump_table_sub_context = JumpTableSubContext0
        /\ etc = Etc0
        /\ node = RootBase + off
        /\ keybuf = << >>
        /\ ejected = NoEjected
        /\ call = NoCall
        /\ steps = 0

(***************************************************************************)
(* Calls of the value accessors.                                           *)
(***************************************************************************)
Aborted == call.rc \in {"overflow", "assert", "bounds", "arena", "fault"}

Running == steps < MaxSteps /\ ~Aborted

SetNodeValue ==
    /\ Running
    /\ \E iv \in InputValues :
          LET o == [ocx EXCEPT !.input_value = iv]
              r == set_node_value(mem, node, o)
          IN  /\ mem' = r.mem
              /\ ocx' = r.ocx
              /\ call' = Call("set_node_value", node, r.rc, o, [none |-> 0])
    /\ steps' = steps + 1
    /\ UNCHANGED <<container, ctx, jump_context, jump_table_sub_context, etc, node, keybuf, ejected>>

GetNodeValue ==
    /\ Running
    /\ LET r == get_node_value(mem, node, ocx)
       IN  /\ ocx' = r.ocx
           /\ call' = Call("get_node_value", node, r.rc, ocx, [none |-> 0])
    /\ steps' = steps + 1
    /\ UNCHANGED <<mem, container, ctx, jump_context, jump_table_sub_context, etc, node, keybuf, ejected>>

NextNode == SetNodeValue \/ GetNodeValue

SpecNode == InitNode /\ [][NextNode]_vars

(***************************************************************************)
(* C1: set_node_value with an input value v followed by get_node_value on  *)
(* the same node (pathcompressed_child = 0) returns OK with                *)
(* return_value = v, and the node's type is LeafWithValue, whatever the    *)
(* node's header bits and prior type were.                                 *)
(***************************************************************************)
C1_SetThenGet ==
    /\ call.op = "get_node_value"
    /\ call.prev.op = "set_node_value"
    /\ call.prev.node = call.node
    /\ is_some(call.prev.input_value)
    /\ call.entry.ocx.pathcompressed_child = 0

C1_GetAfterSetReturnsValue ==
    C1_SetThenGet =>
        /\ call.rc = OK
        /\ ocx.return_value = call.prev.input_value
        /\ type_flag(RD(mem, call.node)) = LeafNodeWithValue

\* a top node with a successor jump and a jump table, previously Invalid
C1_Witness ==
    /\ C1_SetThenGet
    /\ ocx.return_value = Value(2)
    /\ is_top_node(RD(mem, call.node))
    /\ get_jump_overhead(mem, call.node) = SizeofU16 + SizeofTopNodeJumpTable
    /\ ocx.performed_put = 1

(***************************************************************************)
(* C7: get_node_value with pathcompressed_child = 0 returns                *)
(* GetFailureNoLeaf exactly for the types Invalid and InnerNode, and then  *)
(* leaves return_value and operation_done as they were; for LeafEmpty and  *)
(* LeafWithValue it returns OK with operation_done = 1, and return_value   *)
(* changes only for LeafWithValue, to the node's stored value.             *)
(***************************************************************************)
C7_Get == call.op = "get_node_value" /\ call.entry.ocx.pathcompressed_child = 0

C7_EntryType == type_flag(RD(call.entry.mem, call.node))

C7_GetFailureIffNoLeaf ==
    C7_Get =>
        /\ call.rc \in {OK, GetFailureNoLeaf}
        /\ (call.rc = GetFailureNoLeaf) <=> (C7_EntryType \in {Invalid, InnerNode})
        /\ call.rc = GetFailureNoLeaf =>
              /\ ocx.return_value = call.entry.ocx.return_value
              /\ ocx.operation_done = call.entry.ocx.operation_done
        /\ C7_EntryType \in {LeafNodeEmpty, LeafNodeWithValue} =>
              call.rc = OK /\ ocx.operation_done = 1
        /\ C7_EntryType = LeafNodeEmpty => ocx.return_value = call.entry.ocx.return_value
        /\ mem = call.entry.mem

C7_Witness ==
    /\ C7_Get
    /\ C7_EntryType = InnerNode
    /\ call.rc = GetFailureNoLeaf
    /\ call.entry.ocx.operation_done = 0
    /\ ocx.operation_done = 0

(***************************************************************************)
(* Initial states of the expansion runs: a root container of 32 or 64      *)
(* bytes with a given free reserve, at embedded depth 0 to 3, with or      *)
(* without a registered predecessor and sub-level jump-table anchor.       *)
(***************************************************************************)
Requireds == {1, SizeofNodeValue}

FreeBytes == {0, 3, 8, 12, 40}

\* byte offsets, from the container base, of the embedded containers on the stack
EmbeddedOffsets == <<8, 13, 30>>

EmbeddedStackOf(base, depth) ==
    [j \in 1 .. CONTAINER_MAX_EMBEDDED_DEPTH |->
        IF j <= depth THEN base + EmbeddedOffsets[j] ELSE 0]

ContainerBytes(base, size, free) ==
    [a \in Addr |->
        IF a >= base + size - free /\ a < base + size THEN 0 ELSE Fill(a)]

CurS == [mem |-> mem, container |-> container, jump_context |-> jump_context,
         jump_table_sub_context |-> jump_table_sub_context, etc |-> etc]

SetS(S) ==
    /\ mem' = S.mem
    /\ container' = S.container
    /\ jump_context' = S.jump_context
    /\ jump_table_sub_context' = S.jump_table_sub_context
    /\ etc' = S.etc

InitExpand ==
    \E size \in {32, 64}, free \in FreeBytes, cco \in {2, 5}, depth \in 0 .. 3,
       pred \in BOOLEAN, anchor \in BOOLEAN :
        LET neco == IF depth = 0 THEN 0 ELSE EmbeddedOffsets[depth]
        IN  /\ free < size - 16
            /\ mem = ContainerBytes(RootBase, size, free)
            /\ container = [size |-> size, free_bytes |-> free]
            /\ ctx = [Ctx0 EXCEPT !.current_container_offset = IF depth = 0 THEN cco + 2 ELSE cco]
            /\ ocx = Ocx0
            /\ jump_context =
                 IF pred
                 THEN [JumpContext0 EXCEPT !.predecessor = Ptr(RootBase + ContainerHeadSize),
                                           !.top_node_predecessor_offset_absolute = ContainerHeadSize]
                 ELSE JumpContext0
            /\ jump_table_sub_context =
                 IF anchor
                 THEN [JumpTableSubContext0 EXCEPT !.top_node = Ptr(RootBase + ContainerHeadSize)]
                 ELSE JumpTableSubContext0
            /\ etc = [root_container |-> RootBase,
                      next_embedded_container |-> RootBase + neco,
                      embedded_stack |-> EmbeddedStackOf(RootBase, depth),
                      next_embedded_container_offset |-> neco,
                      embedded_container_depth |-> depth]
            /\ node = RootBase + neco + ctx.current_container_offset
            /\ keybuf = << >>
            /\ ejected = NoEjected
            /\ call = NoCall
            /\ steps = 0

ExpandCall(op, variant, required, o) ==
    /\ SetS(o.S)
    /\ node' = IF o.status = OK THEN o.ret ELSE node
    /\ call' = Call(op, node, o.status, ocx,
                    [variant |-> variant, required |-> required, realloc |-> o.realloc,
                     old_size |-> o.old_size, new_size |-> o.new_size, ret |-> o.ret])
    /\ steps' = steps + 1
    /\ UNCHANGED <<ctx, ocx, keybuf, ejected>>

NewExpand ==
    /\ Running
    /\ \E required \in Requireds :
         \E o \in new_expand(CurS, ctx, required) :
            ExpandCall("new_expand", "root", required, o)

NewExpandEmbedded ==
    /\ Running
    /\ \E required \in Requireds :
         \E o \in new_expand_embedded(CurS, ctx, required) :
            ExpandCall("new_expand_embedded", "embedded", required, o)

MetaExpand ==
    /\ Running
    /\ \E required \in Requireds :
         \E o \in meta_expand(CurS, ctx, required) :
            ExpandCall("meta_expand",
                       IF etc.embedded_container_depth = 0 THEN "root" ELSE "embedded",
                       required, o)

NextExpand == NewExpand \/ NewExpandEmbedded \/ MetaExpand

SpecExpand == InitExpand /\ [][NextExpand]_vars

IsExpand == call.op \in {"new_expand", "new_expand_embedded", "meta_expand"}

(***************************************************************************)
(* C3: an expand call with required greater than the container's           *)
(* free_bytes reallocates the container to old size + (required - free)    *)
(* rounded up to the size increment, and on return free_bytes is at least  *)
(* required.                                                               *)
(***************************************************************************)
C3_ExpandReservesRequired ==
    (IsExpand /\ call.rc = OK /\ call.x.required > call.entry.container.free_bytes) =>
        /\ call.x.realloc
        /\ container.size =
             increment_container_size(call.entry.container.size,
                                      call.x.required - call.entry.container.free_bytes)
        /\ container.free_bytes >= call.x.required

(***************************************************************************)
(* C14: an expand call reallocates the container if and only if            *)
(* free_bytes < required; with free_bytes >= required the arena is not     *)
(* called and the container's address, size and free_bytes and the         *)
(* interior references of the operation context are unchanged.             *)
(***************************************************************************)
C14_ArenaCalled == call.x.realloc \/ call.rc = "arena"

C14_ExpandIffShort ==
    (IsExpand /\ call.rc \in {OK, "arena"}) =>
        /\ C14_ArenaCalled <=> (call.entry.container.free_bytes < call.x.required)
        /\ call.entry.container.free_bytes >= call.x.required =>
              /\ container = call.entry.container
              /\ etc = call.entry.etc
              /\ jump_context = call.entry.jump_context
              /\ jump_table_sub_context = call.entry.jump_table_sub_context

(***************************************************************************)
(* C15: after an expansion that reallocates from old_size to new_size the  *)
(* container's free_bytes is (new_size - old_size) plus the free_bytes it  *)
(* had before the call.                                                    *)
(***************************************************************************)
C15_Reallocated == IsExpand /\ call.rc = OK /\ call.x.realloc

C15_FreeBytesAfterExpand ==
    C15_Reallocated =>
        /\ container.size = call.x.new_size
        /\ container.free_bytes =
             (call.x.new_size - call.x.old_size) + call.entry.container.free_bytes

\* a reallocation that changed the size, another that kept it
C15_Witness ==
    /\ C15_Reallocated
    /\ call.x.new_size # call.x.old_size
    /\ call.entry.container.free_bytes = 40
    /\ container.free_bytes = 8

(***************************************************************************)
(* C4: for both expand variants, with or without a reallocation, the node  *)
(* returned is at the container base plus the byte offset of the current   *)
(* node (current_container_offset for the root variant,                    *)
(* next_embedded_container_offset + current_container_offset for the       *)
(* embedded one), and current_container_offset is unchanged.               *)
(***************************************************************************)
C4_ExpandReturnsCurrentNode ==
    (IsExpand /\ call.rc = OK) =>
        /\ call.x.ret =
             etc.root_container
               + (IF call.x.variant = "root" THEN 0 ELSE etc.next_embedded_container_offset)
               + ctx.current_container_offset
        /\ ctx.current_container_offset = call.entry.ctx.current_container_offset

(***************************************************************************)
(* C5: after new_expand_embedded has reallocated the container, every      *)
(* embedded-stack entry below embedded_container_depth is at the same byte *)
(* offset from the new base as it was from the old base, and               *)
(* next_embedded_container is the new base plus                            *)
(* next_embedded_container_offset.                                         *)
(***************************************************************************)
C5_EmbeddedStackRebased ==
    (IsExpand /\ call.rc = OK /\ call.x.variant = "embedded" /\ call.x.realloc) =>
        /\ \A j \in 1 .. etc.embedded_container_depth :
              etc.embedded_stack[j] - etc.root_container
                = call.entry.etc.embedded_stack[j] - call.entry.etc.root_container
        /\ etc.next_embedded_container
             = etc.root_container + etc.next_embedded_container_offset

(***************************************************************************)
(* C6: after an expansion that reallocates, a predecessor that was set     *)
(* points at new base + top_node_predecessor_offset_absolute, and a        *)
(* sub-level top_node that was set points at new base + its old byte       *)
(* offset from the old base.                                               *)
(***************************************************************************)
C6_JumpReferencesRebased ==
    (IsExpand /\ call.rc = OK /\ call.x.realloc) =>
        /\ call.entry.jump_context.predecessor.some =>
              jump_context.predecessor =
                  Ptr(etc.root_container + jump_context.top_node_predecessor_offset_absolute)
        /\ call.entry.jump_table_sub_context.top_node.some =>
              jump_table_sub_context.top_node =
                  Ptr(etc.root_container
                        + (call.entry.jump_table_sub_context.top_node.ptr
                             - call.entry.etc.root_container))

(***************************************************************************)
(* C8: nothing of the container, its free_bytes field included, is written *)
(* before the arena reallocation has returned: when the arena fails, the   *)
(* container's bytes and free_bytes are those at the call's entry.         *)
(***************************************************************************)
C8_ArenaFailureLeavesContainer ==
    (IsExpand /\ call.rc = "arena") =>
        /\ mem = call.entry.mem
        /\ container.free_bytes = call.entry.container.free_bytes

(***************************************************************************)
(* Initial states of the path-compression runs: a root container of 64     *)
(* bytes holding a top node 'A', under it at current_container_offset a    *)
(* sub node 'B' whose child is a path-compressed leaf, then further nodes, *)
(* then the free reserve.  The key is "AB" followed by a tail.             *)
(***************************************************************************)
Residuals == { <<99, 100, 101, 102, 103, 104, 105>>, <<99>> }

Keys == { <<65, 66, 99, 100, 101, 102, 103, 104, 105>>,
          <<65, 66, 99, 100, 101, 102, 103, 104, 33>>,
          <<65, 66, 33, 33, 33, 33, 33, 33, 99>>,
          <<65, 66, 99>> }

\* the bytes that lie behind the key in memory
KeyTails == { <<0, 0, 0, 0, 0, 0, 0, 0>>, <<100, 101, 102, 103, 104, 105, 0, 0>> }

StoredValue == Value(5)

PCSubOffset == ContainerHeadSize + 2

SubNodeBytes(t, d) ==
    <<NodeByte(t, 1, d, ChildPathCompressed)>>
        \o (IF d = 0 THEN <<66>> ELSE << >>)
        \o (IF t = LeafNodeWithValue THEN Value(9) ELSE << >>)

LeafBytes(vp, resid) ==
    <<PCByte(SizeofPathCompressedNodeHeader + vp * SizeofNodeValue + Len(resid), vp)>>
        \o (IF vp = 1 THEN StoredValue ELSE << >>)
        \o resid

PCContainerBytes(t, d, vp, resid, free) ==
    LET body == <<NodeByte(InnerNode, 0, 0, 0), 65>> \o SubNodeBytes(t, d) \o LeafBytes(vp, resid)
        first == RootBase + ContainerHeadSize
    IN  [a \in Addr |->
            IF a >= first /\ a < first + Len(body) THEN body[a - first + 1]
            ELSE IF a >= RootBase + 64 - free /\ a < RootBase + 64 THEN 0
            ELSE Fill(a)]

InitPC ==
    \E t \in {InnerNode, LeafNodeWithValue}, d \in 0 .. 1, vp \in 0 .. 1,
       resid \in Residuals, key \in Keys, tail \in KeyTails, free \in {2, 8, 20} :
        /\ mem = PCContainerBytes(t, d, vp, resid, free)
        /\ container = [size |-> 64, free_bytes |-> free]
        /\ ctx = [Ctx0 EXCEPT !.current_container_offset = PCSubOffset]
        /\ ocx = [Ocx0 EXCEPT !.pathcompressed_child = 1, !.key_len_left = Len(key)]
        /\ jump_context = JumpContext0
        /\ jump_table_sub_context = JumpTableSubContext0
        /\ etc = Etc0
        /\ node = RootBase + PCSubOffset
        /\ keybuf = key \o tail
        /\ ejected = NoEjected
        /\ call = NoCall
        /\ steps = 0

UpdatePathCompressedNode ==
    /\ Running
    /\ \E iv \in {None, Value(1)} :
         LET o == [ocx EXCEPT !.input_value = iv]
         IN  \E r \in update_path_compressed_node(CurS, node, o, ctx) :
                /\ SetS(r.S)
                /\ ocx' = r.ocx
                /\ node' = r.ret
                /\ call' = Call("update_path_compressed_node", node, r.status, o,
                                [ret |-> r.ret])
    /\ steps' = steps + 1
    /\ UNCHANGED <<ctx, keybuf, ejected>>

ComparePathCompressedNode ==
    /\ Running
    /\ \E r \in compare_path_compressed_node(mem, node, ocx, keybuf) :
         call' = Call("compare_path_compressed_node", node, r.status, ocx,
                      [result |-> r.result])
    /\ steps' = steps + 1
    /\ UNCHANGED <<mem, container, ctx, ocx, jump_context, jump_table_sub_context, etc,
                   node, keybuf, ejected>>

NextPC == UpdatePathCompressedNode \/ GetNodeValue \/ ComparePathCompressedNode

SpecPC == InitPC /\ [][NextPC]_vars

\* the path-compressed leaf of the sub node at current_container_offset
LeafOf(m, base, cx) ==
    as_raw_compressed(m, base + cx.current_container_offset)

LeafNow == LeafOf(mem, etc.root_container, ctx)
LeafAtEntry == LeafOf(call.entry.mem, call.entry.etc.root_container, call.entry.ctx)

IsUpdate == call.op = "update_path_compressed_node" /\ call.rc = OK

(***************************************************************************)
(* C2: after update_path_compressed_node with an input value v on a        *)
(* path-compressed leaf, with or without a prior value, the leaf has       *)
(* value_present = 1, the value record right after the leaf's header is v, *)
(* the operation's input_value is still v, and a following get_node_value  *)
(* with pathcompressed_child = 1 returns OK with return_value = v.         *)
(***************************************************************************)
C2_UpdateStoresInputValue ==
    /\ (IsUpdate /\ is_some(call.entry.ocx.input_value)) =>
          /\ value_present(RD(mem, LeafNow)) = 1
          /\ ReadBytes(mem, LeafNow + SizeofPathCompressedNodeHeader, SizeofNodeValue)
               = call.entry.ocx.input_value
          /\ ocx.input_value = call.entry.ocx.input_value
    /\ (/\ call.op = "get_node_value"
        /\ call.entry.ocx.pathcompressed_child = 1
        /\ call.prev.op = "update_path_compressed_node"
        /\ is_some(call.prev.input_value)) =>
          call.rc = OK /\ ocx.return_value = call.prev.input_value

(***************************************************************************)
(* C9: after update_path_compressed_node, a leaf with value_present = 1    *)
(* has size = sizeof(header) + sizeof(value) + residual key length; when   *)
(* the call gives a value to a leaf that had none, the leaf's size field   *)
(* has grown by sizeof(value).                                             *)
(***************************************************************************)
C9_ResidualAtEntry ==
    pc_size(RD(call.entry.mem, LeafAtEntry)) - SizeofPathCompressedNodeHeader
        - value_present(RD(call.entry.mem, LeafAtEntry)) * SizeofNodeValue

C9_UpdateKeepsLeafSize ==
    (IsUpdate /\ call.prev.op = "none") =>
        /\ value_present(RD(mem, LeafNow)) = 1 =>
              pc_size(RD(mem, LeafNow))
                = SizeofPathCompressedNodeHeader + SizeofNodeValue + C9_ResidualAtEntry
        /\ (is_some(call.entry.ocx.input_value)
              /\ value_present(RD(call.entry.mem, LeafAtEntry)) = 0) =>
              pc_size(RD(mem, LeafNow))
                = pc_size(RD(call.entry.mem, LeafAtEntry)) + SizeofNodeValue

(***************************************************************************)
(* C16: once an expansion has relocated the container, every later write   *)
(* and shift of the operation goes to an address derived from the new      *)
(* base: update_path_compressed_node makes room for the value at the       *)
(* leaf's value position in the relocated container, so the residual key   *)
(* lies sizeof(value) further on there, and the bytes at the container's   *)
(* old address are not written.                                            *)
(***************************************************************************)
C16_Relocated == IsUpdate /\ etc.root_container # call.entry.etc.root_container

C16_OldRegion ==
    call.entry.etc.root_container
        .. (call.entry.etc.root_container + call.entry.container.size - 1)

C16_ShiftInRelocatedContainer ==
    C16_Relocated =>
        /\ ReadBytes(mem, LeafNow + SizeofPathCompressedNodeHeader + SizeofNodeValue,
                     C9_ResidualAtEntry)
             = ReadBytes(call.entry.mem, LeafAtEntry + SizeofPathCompressedNodeHeader,
                         C9_ResidualAtEntry)
        /\ \A a \in C16_OldRegion : RD(mem, a) = RD(call.entry.mem, a)

(***************************************************************************)
(* C10: compare_path_compressed_node returns true exactly when the leaf's  *)
(* residual key length (size minus header, minus sizeof(value) when        *)
(* value_present) equals key_len_left - 2 and the key bytes after the      *)
(* first two remaining key bytes equal the leaf's residual key bytes; it   *)
(* changes neither the operation context nor the container.                *)
(***************************************************************************)
C10_Residual ==
    LET b == RD(mem, LeafNow)
        overhead == SizeofPathCompressedNodeHeader + value_present(b) * SizeofNodeValue
    IN  ReadBytes(mem, LeafNow + overhead, pc_size(b) - overhead)

C10_KeyAfterTwo ==
    [i \in 1 .. ocx.key_len_left - 2 |-> KeyByte(keybuf, ocx.key + 2 + i - 1)]

C10_CompareMatchesResidualKey ==
    (call.op = "compare_path_compressed_node" /\ call.rc = OK /\ call.prev.op = "none") =>
        /\ call.x.result <=>
              (Len(C10_Residual) = ocx.key_len_left - 2 /\ C10_KeyAfterTwo = C10_Residual)
        /\ mem = call.entry.mem
        /\ container = call.entry.container
        /\ ocx = call.entry.ocx

(***************************************************************************)
(* NodeHeader::call_top_node, call_sub_node.  current_key_offset is the    *)
(* range query's key cursor; answer is what the callback returns if it is  *)
(* invoked.  Each yields the invocations made, in order, as (key length,   *)
(* value handle), and the function's result.                               *)
(***************************************************************************)
Invocation(key_len, value) == [key_len |-> key_len, value |-> value]

\* self.as_raw_mut().add(self.get_offset_node_value()) as *mut NodeValue
call_value_handle(m, n) == Ptr(PtrAdd(n, get_offset_node_value(m, n), SizeofNodeHeader))

call_node(m, n, key_len, answer) ==
    LET t == type_flag(RD(m, n))
    IN  IF t = LeafNodeEmpty
        THEN [invoked |-> <<Invocation(key_len, NoPtr)>>, result |-> answer]
        ELSE IF t = LeafNodeWithValue
        THEN [invoked |-> <<Invocation(key_len, call_value_handle(m, n))>>, result |-> answer]
        ELSE [invoked |-> << >>, result |-> TRUE]

call_top_node_keep_scanning(m, n, current_key_offset, answer) ==
    [call_node(m, n, current_key_offset + 1, answer) EXCEPT !.result = TRUE]

call_top_node(m, n, current_key_offset, answer) ==
    call_node(m, n, current_key_offset + 1, answer)

call_sub_node(m, n, current_key_offset, answer) ==
    call_node(m, n, current_key_offset + 2, answer)

(***************************************************************************)
(* NodeHeader::get_child_link_size, get_offset_sub_node and the offsets    *)
(* they are built from.                                                    *)
(***************************************************************************)
SizeofContainerLink == 8
SizeofEmbeddedContainer == 1

\* EmbeddedContainer::size: the embedded container's one header byte
embedded_size(b) == b

\* self.as_raw().add(offset) on *const NodeHeader
as_raw_embedded(n, offset) == PtrAdd(n, offset, SizeofNodeHeader)

get_child_link_size(m, n) ==
    LET c == child_container(RD(m, n))
    IN  IF c = ChildNone THEN 0
        ELSE IF c = ChildLink THEN SizeofContainerLink
        ELSE IF c = ChildEmbeddedContainer
        THEN embedded_size(RD(m, as_raw_embedded(n, get_offset_child_container(m, n))))
        ELSE pc_size(RD(m, as_raw_compressed(m, n)))

get_offset_sub_node_delta(m, n) ==
    SizeofNodeHeader + get_jump_overhead(m, n) + get_child_link_size(m, n)

get_offset_sub_node_nondelta(m, n) == get_offset_sub_node_delta(m, n) + 1

get_offset_sub_node(m, n) ==
    IF ~has_delta(RD(m, n))
    THEN get_offset_sub_node_nondelta(m, n)
    ELSE get_offset_sub_node_delta(m, n)

get_offset_top_node_delta(m, n) ==
    SizeofNodeHeader + get_jump_overhead(m, n) + get_leaf_size(m, n)

get_offset_top_node_nondelta(m, n) == get_offset_top_node_delta(m, n) + 1

get_offset_top_node(m, n) ==
    IF ~has_delta(RD(m, n))
    THEN get_offset_top_node_nondelta(m, n)
    ELSE get_offset_top_node_delta(m, n)

get_offset(m, n) ==
    IF container_type(RD(m, n)) = 0 THEN get_offset_top_node(m, n) ELSE get_offset_sub_node(m, n)

(***************************************************************************)
(* Initial states of the scan runs: one node of every header byte at       *)
(* current_container_offset; where the node's child begins lies the first  *)
(* byte of a child (an embedded container's size, or a path-compressed     *)
(* leaf's header).                                                         *)
(***************************************************************************)
ChildBytes == {6, 25}

KeyOffsets == {0, 3}

InitScan ==
    \E hb \in HeaderBytes, cb \in ChildBytes :
        LET n  == RootBase + ContainerHeadSize
            m0 == [a \in Addr |-> IF a = n THEN hb ELSE Fill(a)]
        IN  /\ mem = WR(m0, as_raw_compressed(m0, n), cb)
            /\ container = [size |-> 64, free_bytes |-> 8]
            /\ ctx = Ctx0
            /\ ocx = Ocx0
            /\ jump_context = JumpContext0
            /\ jump_table_sub_context = JumpTableSubContext0
            /\ etc = Etc0
            /\ node = n
            /\ keybuf = << >>
            /\ ejected = NoEjected
            /\ call = NoCall
            /\ steps = 0

ReadOnlyCall(op, x) ==
    /\ call' = Call(op, node, OK, ocx, x)
    /\ steps' = steps + 1
    /\ UNCHANGED <<mem, container, ctx, ocx, jump_context, jump_table_sub_context, etc,
                   node, keybuf, ejected>>

CallTopNode ==
    /\ Running
    /\ \E off \in KeyOffsets, answer \in BOOLEAN :
         LET r == call_top_node(mem, node, off, answer)
         IN  ReadOnlyCall("call_top_node",
                          [current_key_offset |-> off, answer |-> answer,
                           invoked |-> r.invoked, result |-> r.result])

CallSubNode ==
    /\ Running
    /\ \E off \in KeyOffsets, answer \in BOOLEAN :
         LET r == call_sub_node(mem, node, off, answer)
         IN  ReadOnlyCall("call_sub_node",
                          [current_key_offset |-> off, answer |-> answer,
                           invoked |-> r.invoked, result |-> r.result])

GetOffsetSubNode ==
    /\ Running
    /\ ReadOnlyCall("get_offset_sub_node", [result |-> get_offset_sub_node(mem, node)])

NextScan == CallTopNode \/ CallSubNode \/ GetOffsetSubNode

SpecScan == InitScan /\ [][NextScan]_vars

(***************************************************************************)
(* C11: call_top_node and call_sub_node invoke the callback exactly once   *)
(* for a LeafEmpty or LeafWithValue node and never for an Invalid or       *)
(* InnerNode node, for which they return true; the key length passed is    *)
(* current_key_offset + 1 for a top node and + 2 for a sub node; the       *)
(* result is what the callback returned.                                   *)
(***************************************************************************)
C11_IsCall == call.op \in {"call_top_node", "call_sub_node"}

C11_CallbackOncePerLeaf ==
    C11_IsCall =>
        LET t == type_flag(RD(mem, call.node))
            k == call.x.current_key_offset + (IF call.op = "call_top_node" THEN 1 ELSE 2)
        IN  /\ t \in {LeafNodeEmpty, LeafNodeWithValue} =>
                  /\ Len(call.x.invoked) = 1
                  /\ call.x.invoked[1].key_len = k
                  /\ call.x.result = call.x.answer
            /\ t \in {Invalid, InnerNode} =>
                  /\ call.x.invoked = << >>
                  /\ call.x.result = TRUE

\* a top-node leaf whose callback answers false
C11_Witness ==
    /\ call.op = "call_top_node"
    /\ type_flag(RD(mem, call.node)) = LeafNodeWithValue
    /\ call.x.current_key_offset = 3
    /\ call.x.invoked = <<Invocation(4, call_value_handle(mem, call.node))>>
    /\ call.x.answer = FALSE
    /\ call.x.result = FALSE

(***************************************************************************)
(* C12: for a sub node, get_offset_sub_node is 1 (header) + 1 if the delta *)
(* bits are 0 + the child's size + the leaf size, where the leaf size is   *)
(* sizeof(Value) for LeafWithValue and 0 otherwise and the child's size is *)
(* 0, sizeof(Link), the embedded container's size or the path-compressed   *)
(* leaf's size according to child_container; no jump overhead is added.    *)
(***************************************************************************)
C12_LeafSize(b) == IF type_flag(b) = LeafNodeWithValue THEN SizeofNodeValue ELSE 0

C12_KeySize(b) == IF delta(b) = 0 THEN 1 ELSE 0

C12_ChildSize(m, n) ==
    LET b     == RD(m, n)
        child == RD(m, n + SizeofNodeHeader + C12_KeySize(b) + C12_LeafSize(b))
    IN  CASE child_container(b) = ChildNone -> 0
          [] child_container(b) = ChildLink -> SizeofContainerLink
          [] child_container(b) = ChildEmbeddedContainer -> embedded_size(child)
          [] child_container(b) = ChildPathCompressed -> pc_size(child)

C12_SubNodeOffset ==
    (call.op = "get_offset_sub_node" /\ ~is_top_node(RD(mem, call.node))) =>
        call.x.result =
            SizeofNodeHeader + C12_KeySize(RD(mem, call.node))
              + C12_ChildSize(mem, call.node) + C12_LeafSize(RD(mem, call.node))

(***************************************************************************)
(* Initial states of the header runs: a sub node with a path-compressed    *)
(* child whose header byte is any of the 256 bytes; the calls are the      *)
(* setters of PathCompressedNodeHeader on that byte.                       *)
(***************************************************************************)
SizeInputs == {0, 1, 8, 64, 127}

InitPCHeader ==
    \E hb \in 0 .. 255 :
        LET n  == RootBase + PCSubOffset
            m0 == [a \in Addr |->
                     IF a = n THEN NodeByte(InnerNode, 1, 1, ChildPathCompressed) ELSE Fill(a)]
        IN  /\ mem = WR(m0, as_raw_compressed(m0, n), hb)
            /\ container = [size |-> 64, free_bytes |-> 8]
            /\ ctx = [Ctx0 EXCEPT !.current_container_offset = PCSubOffset]
            /\ ocx = [Ocx0 EXCEPT !.pathcompressed_child = 1]
            /\ jump_context = JumpContext0
            /\ jump_table_sub_context = JumpTableSubContext0
            /\ etc = Etc0
            /\ node = n
            /\ keybuf = << >>
            /\ ejected = NoEjected
            /\ call = NoCall
            /\ steps = 0

HeaderCall(op, x, b) ==
    /\ mem' = WR(mem, as_raw_compressed(mem, node), b)
    /\ call' = Call(op, node, OK, ocx, x)
    /\ steps' = steps + 1
    /\ UNCHANGED <<container, ctx, ocx, jump_context, jump_table_sub_context, etc,
                   node, keybuf, ejected>>

SetSize ==
    /\ Running
    /\ \E sz \in SizeInputs :
         HeaderCall("set_size", [size |-> sz],
                    set_pc_size(RD(mem, as_raw_compressed(mem, node)), sz))

SetValuePresent ==
    /\ Running
    /\ \E v \in 0 .. 1 :
         HeaderCall("set_value_present", [value_present |-> v],
                    set_value_present(RD(mem, as_raw_compressed(mem, node)), v))

NextPCHeader == SetSize \/ SetValuePresent

SpecPCHeader == InitPCHeader /\ [][NextPCHeader]_vars

(***************************************************************************)
(* C13: the PathCompressedNodeHeader byte has value_present in its most    *)
(* significant bit and size in its low 7 bits: the byte is                 *)
(* value_present * 128 + size, and setting one field leaves the other      *)
(* unchanged.                                                              *)
(***************************************************************************)
C13_HeaderNow == RD(mem, as_raw_compressed(mem, node))

C13_HeaderAtEntry == RD(call.entry.mem, as_raw_compressed(call.entry.mem, call.node))

C13_ValuePresentInTopBit ==
    /\ call.op \in {"set_size", "set_value_present"} =>
          C13_HeaderNow = value_present(C13_HeaderNow) * 128 + pc_size(C13_HeaderNow)
    /\ call.op = "set_size" =>
          /\ pc_size(C13_HeaderNow) = call.x.size
          /\ value_present(C13_HeaderNow) = value_present(C13_HeaderAtEntry)
    /\ call.op = "set_value_present" =>
          /\ value_present(C13_HeaderNow) = call.x.value_present
          /\ pc_size(C13_HeaderNow) = pc_size(C13_HeaderAtEntry)

(***************************************************************************)
(* OperationContext::insert_jump(ctx, jump_value).  Yields the outcomes of *)
(* the call: status, the state and traversal context left, the node        *)
(* returned.                                                               *)
(***************************************************************************)
\* a u16 in memory, least significant byte first
ReadU16(m, a) == RD(m, a) + 256 * RD(m, a + 1)

WriteU16(m, a, v) == WR(WR(m, a, v % 256), a + 1, (v \div 256) % 256)

JumpOutcome(status, S, cx, ret) == [status |-> status, S |-> S, ctx |-> cx, ret |-> ret]

\* (node as *mut u16).add((*node).get_offset_jump())
insert_jump_slot(m, n) == PtrAdd(n, get_offset_jump(m, n), SizeofU16)

insert_jump_after_expand(S, cx, jump_value) ==
    LET P    == S.jump_context.top_node_predecessor_offset_absolute
        n    == PtrAdd(S.etc.root_container, P, SizeofCVoid)
        free_size_left == S.container.free_bytes
        node_offset_to_jump == get_offset_jump(S.mem, n)
        target == PtrAdd(n, node_offset_to_jump, SizeofCVoid)
        tail == S.container.size - (free_size_left + node_offset_to_jump + P)
        m1   == shift_container(S.mem, target, SizeofU16, tail)
        m2   == WR(m1, n, set_jump_successor(RD(m1, n), 1))
        slot == insert_jump_slot(m2, n)
        sum  == ReadU16(m2, slot) + jump_value
        S3   == update_space_usage([S EXCEPT !.mem = WriteU16(m2, slot, sum)], SizeofU16)
        cx1  == [cx EXCEPT !.current_container_offset = @ + SizeofU16]
        done == JumpOutcome(OK, S3, cx1,
                            PtrAdd(S3.etc.root_container, cx1.current_container_offset,
                                   SizeofCVoid))
    IN  IF ~(P > 0) \/ container_type(RD(S.mem, n)) # 0
        THEN {JumpOutcome("assert", S, cx, 0)}
        ELSE IF tail < 0
        THEN {JumpOutcome("overflow", S, cx, 0), JumpOutcome("fault", S, cx, 0)}
        ELSE IF sum > 65535
        THEN {JumpOutcome("overflow", [S EXCEPT !.mem = m2], cx, 0), done}
        ELSE {done}

insert_jump(S, cx, jump_value) ==
    UNION { IF e.status # OK
            THEN {JumpOutcome(e.status, e.S, cx, 0)}
            ELSE insert_jump_after_expand(e.S, cx, jump_value)
            : e \in new_expand(S, cx, SizeofNodeValue) }

(***************************************************************************)
(* Initial states of the jump runs: a root container whose first node, at  *)
(* the head size, is the registered predecessor (or a node that was not    *)
(* registered), followed by further nodes up to the free reserve.          *)
(***************************************************************************)
JumpValues == {5, 300}

InitJump ==
    \E t \in {InnerNode, LeafNodeWithValue}, ct \in 0 .. 1, d \in 0 .. 1,
       free \in {2, 8, 20}, pred \in BOOLEAN, cco \in {6, 9} :
        /\ mem = WR(ContainerBytes(RootBase, 64, free), RootBase + ContainerHeadSize,
                    NodeByte(t, ct, d, 0))
        /\ container = [size |-> 64, free_bytes |-> free]
        /\ ctx = [Ctx0 EXCEPT !.current_container_offset = cco]
        /\ ocx = Ocx0
        /\ jump_context =
             IF pred
             THEN [JumpContext0 EXCEPT !.predecessor = Ptr(RootBase + ContainerHeadSize),
                                       !.top_node_predecessor_offset_absolute = ContainerHeadSize]
             ELSE JumpContext0
        /\ jump_table_sub_context = JumpTableSubContext0
        /\ etc = Etc0
        /\ node = RootBase + cco
        /\ keybuf = << >>
        /\ ejected = NoEjected
        /\ call = NoCall
        /\ steps = 0

InsertJump ==
    /\ Running
    /\ \E jump_value \in JumpValues :
         \E r \in insert_jump(CurS, ctx, jump_value) :
            /\ SetS(r.S)
            /\ ctx' = r.ctx
            /\ node' = IF r.status = OK THEN r.ret ELSE node
            /\ call' = Call("insert_jump", node, r.status, ocx,
                            [jump_value |-> jump_value, ret |-> r.ret])
    /\ steps' = steps + 1
    /\ UNCHANGED <<ocx, keybuf, ejected>>

NextJump == InsertJump \/ NewExpand

SpecJump == InitJump /\ [][NextJump]_vars

(***************************************************************************)
(* C20: after insert_jump(ctx, jump_value) on the top node at byte offset  *)
(* P = top_node_predecessor_offset_absolute > 0: two bytes have been       *)
(* inserted at P + offset_jump (the bytes before are as they were but for  *)
(* the node's header, the bytes in use behind lie two further on), the     *)
(* node's jump_successor bit is 1, the 16-bit field at P + offset_jump is  *)
(* jump_value, free_bytes (whatever the expansion added to it) is 2 less   *)
(* and current_container_offset 2 more.                                    *)
(***************************************************************************)
C20_P == call.entry.jump_context.top_node_predecessor_offset_absolute

C20_OldNode == call.entry.etc.root_container + C20_P

C20_Node == etc.root_container + C20_P

C20_OffsetJump == IF has_delta(RD(call.entry.mem, C20_OldNode)) THEN 1 ELSE 2

C20_TailLen ==
    call.entry.container.size - call.entry.container.free_bytes - C20_P - C20_OffsetJump

C20_JumpInserted ==
    (call.op = "insert_jump" /\ call.rc = OK /\ call.prev.op = "none") =>
        /\ jump_successor(RD(mem, C20_Node)) = 1
        /\ RD(mem, C20_Node) = set_jump_successor(RD(call.entry.mem, C20_OldNode), 1)
        /\ ReadBytes(mem, C20_Node + 1, C20_OffsetJump - 1)
             = ReadBytes(call.entry.mem, C20_OldNode + 1, C20_OffsetJump - 1)
        /\ ReadU16(mem, C20_Node + C20_OffsetJump) = call.x.jump_value
        /\ ReadBytes(mem, C20_Node + C20_OffsetJump + SizeofU16, C20_TailLen)
             = ReadBytes(call.entry.mem, C20_OldNode + C20_OffsetJump, C20_TailLen)
        /\ container.free_bytes =
             call.entry.container.free_bytes + (container.size - call.entry.container.size)
               - SizeofU16
        /\ ctx.current_container_offset
             = call.entry.ctx.current_container_offset + SizeofU16

(***************************************************************************)
(* OperationContext::safe_sub_node_jump_table_context and                  *)
(* add_embedded_container(node, ocx, ctx).  The latter yields the outcomes *)
(* of the call: status, the state, operation context and traversal context *)
(* left.                                                                   *)
(***************************************************************************)
safe_sub_node_jump_table_context(S, cx) ==
    LET sub_jump_table == S.jump_table_sub_context
    IN  IF /\ sub_jump_table.top_node.some
           /\ jump_table(RD(S.mem, sub_jump_table.top_node.ptr)) = 1
           /\ S.etc.embedded_container_depth = 0
        THEN [S EXCEPT !.jump_table_sub_context.root_container_sub_char_set = 1,
                       !.jump_table_sub_context.root_container_sub_char = cx.second_char]
        ELSE S

EmbedOutcome(status, S, o, cx) == [status |-> status, S |-> S, ocx |-> o, ctx |-> cx]

add_embedded_container_after_expand(S, expanded, o, cx, offset_child_container) ==
    LET next == PtrAdd(expanded, offset_child_container, SizeofCVoid)
        tail == shift_tail_len(S, next)
        S1   == [S EXCEPT !.etc.next_embedded_container = next,
                          !.mem = shift_container(@, next, SizeofEmbeddedContainer, tail)]
        cx1  == [cx EXCEPT !.current_container_offset = @ + offset_child_container]
        S2   == [S1 EXCEPT !.mem = WR(@, expanded,
                                      set_child_container(RD(S1.mem, expanded),
                                                          ChildEmbeddedContainer))]
        S3   == safe_sub_node_jump_table_context(S2, cx1)
        depth == S3.etc.embedded_container_depth
        S4   == [S3 EXCEPT !.etc.embedded_stack[depth + 1] = next,
                           !.etc.embedded_container_depth = depth + 1]
    IN  IF tail < 0
        THEN {EmbedOutcome("fault", S, o, cx)}
        ELSE IF depth >= CONTAINER_MAX_EMBEDDED_DEPTH
        THEN {EmbedOutcome("bounds", S3, o, cx1)}
        ELSE {EmbedOutcome(OK, update_space_usage(S4, SizeofEmbeddedContainer),
                           [o EXCEPT !.next_container_pointer = NoPtr], cx1)}

add_embedded_container(S, n, o, cx) ==
    LET o1 == [o EXCEPT !.next_container_valid = 2]
        offset_child_container == get_offset_child_container(S.mem, n)
    IN  UNION { IF e.status # OK
                THEN {EmbedOutcome(e.status, e.S, o1, cx)}
                ELSE add_embedded_container_after_expand(e.S, e.ret, o1, cx,
                                                         offset_child_container)
                : e \in new_expand_embedded(S, cx, SizeofEmbeddedContainer) }

(***************************************************************************)
(* Initial states of the embedding runs: a root container holding a top    *)
(* node and, at embedded depth 0 or 1, the sub node without a child that   *)
(* the traversal stands on; at depth 1 the sub node lies in an embedded    *)
(* container that starts at offset 8.                                      *)
(***************************************************************************)
EmbedNodeOffset(depth) == IF depth = 0 THEN ContainerHeadSize + 2 ELSE EmbeddedOffsets[1] + 3

InitEmbed ==
    \E t \in {InnerNode, LeafNodeWithValue}, d \in 0 .. 1, free \in {0, 1, 8},
       depth \in 0 .. 1, anchor \in BOOLEAN, top \in {NodeByte(InnerNode, 0, 0, 0),
                                                      NodeByte(InnerNode, 0, 0, 1)} :
        LET neco == IF depth = 0 THEN 0 ELSE EmbeddedOffsets[1]
            off  == EmbedNodeOffset(depth)
            m0   == WR(ContainerBytes(RootBase, 64, free), RootBase + ContainerHeadSize, top)
            m1   == WR(m0, RootBase + off, NodeByte(t, 1, d, ChildNone))
        IN  /\ mem = IF depth = 0 THEN m1 ELSE WR(m1, RootBase + neco, 64 - free - neco)
            /\ container = [size |-> 64, free_bytes |-> free]
            /\ ctx = [Ctx0 EXCEPT !.current_container_offset = off - neco]
            /\ ocx = [Ocx0 EXCEPT !.next_container_pointer = Ptr(1)]
            /\ jump_context = JumpContext0
            /\ jump_table_sub_context =
                 IF anchor
                 THEN [JumpTableSubContext0 EXCEPT !.top_node = Ptr(RootBase + ContainerHeadSize)]
                 ELSE JumpTableSubContext0
            /\ etc = [root_container |-> RootBase,
                      next_embedded_container |-> RootBase + neco,
                      embedded_stack |-> EmbeddedStackOf(RootBase, depth),
                      next_embedded_container_offset |-> neco,
                      embedded_container_depth |-> depth]
            /\ node = RootBase + off
            /\ keybuf = << >>
            /\ ejected = NoEjected
            /\ call = NoCall
            /\ steps = 0

AddEmbeddedContainer ==
    /\ Running
    /\ \E r \in add_embedded_container(CurS, node, ocx, ctx) :
         /\ SetS(r.S)
         /\ ocx' = r.ocx
         /\ ctx' = r.ctx
         /\ call' = Call("add_embedded_container", node, r.status, ocx, [none |-> 0])
    /\ steps' = steps + 1
    /\ UNCHANGED <<node, keybuf, ejected>>

NextEmbed == AddEmbeddedContainer \/ NewExpandEmbedded

SpecEmbed == InitEmbed /\ [][NextEmbed]_vars

(***************************************************************************)
(* C19: after add_embedded_container on a sub node without a child at      *)
(* embedded depth d: the bytes from the node's child offset on lie         *)
(* sizeof(EmbeddedContainer) further on, the node's child_container is     *)
(* EmbeddedContainer, embedded_stack[d] is the address of the new embedded *)
(* header at node + offset_child_container, the depth is d + 1,            *)
(* current_container_offset has grown by offset_child_container and the    *)
(* container's free_bytes, whatever the expansion added to it, has shrunk  *)
(* by sizeof(EmbeddedContainer).                                           *)
(***************************************************************************)
C19_OldNode == call.node

C19_Node == etc.root_container + (call.node - call.entry.etc.root_container)

C19_ChildOffset ==
    LET b == RD(call.entry.mem, C19_OldNode)
    IN  SizeofNodeHeader + (IF delta(b) = 0 THEN 1 ELSE 0)
          + (IF type_flag(b) = LeafNodeWithValue THEN SizeofNodeValue ELSE 0)

C19_TailLen ==
    call.entry.container.size - call.entry.container.free_bytes
        - (C19_OldNode - call.entry.etc.root_container) - C19_ChildOffset

C19_IsAdd ==
    /\ call.op = "add_embedded_container"
    /\ call.rc = OK
    /\ call.prev.op = "none"
    /\ child_container(RD(call.entry.mem, C19_OldNode)) = ChildNone
    /\ ~is_top_node(RD(call.entry.mem, C19_OldNode))

C19_EmbeddedContainerAdded ==
    C19_IsAdd =>
        /\ ReadBytes(mem, C19_Node + C19_ChildOffset + SizeofEmbeddedContainer, C19_TailLen)
             = ReadBytes(call.entry.mem, C19_OldNode + C19_ChildOffset, C19_TailLen)
        /\ child_container(RD(mem, C19_Node)) = ChildEmbeddedContainer
        /\ etc.embedded_stack[call.entry.etc.embedded_container_depth + 1]
             = C19_Node + C19_ChildOffset
        /\ etc.embedded_container_depth = call.entry.etc.embedded_container_depth + 1
        /\ ctx.current_container_offset
             = call.entry.ctx.current_container_offset + C19_ChildOffset
        /\ container.free_bytes =
             call.entry.container.free_bytes + (container.size - call.entry.container.size)
               - SizeofEmbeddedContainer


(***************************************************************************)
(* eject_container(node, ocx, ctx): the embedded container at the bottom   *)
(* of the stack becomes a container of its own, linked from the sub node.  *)
(* S carries, besides the fields of the expansion state, the container     *)
(* allocated (ejected).  Yields the outcomes of the call: status, the      *)
(* state left, and what the call computed.                                 *)
(***************************************************************************)
CONTAINER_MAX_FREESIZE == 255

\* where the arena places the container of an ejection
EjectedBase == 688

\* the HyperionPointer of the new container, as stored in a ContainerLink
EjectedHandle == [i \in 1 .. SizeofContainerLink |-> 224 + i]

\* initialize_ejected_container(arena, required_size): a zeroed container that
\* holds its head and required_size bytes, all of its body free
initialize_ejected_container(S, required_size) ==
    LET size == increment_container_size(0, ContainerHeadSize + required_size)
    IN  [S EXCEPT !.mem = ZeroFill(@, EjectedBase, size),
                  !.ejected = [some |-> TRUE, base |-> EjectedBase, size |-> size,
                               free_bytes |-> (size - ContainerHeadSize) % 256]]

\* libc memmove(dest, src, n)
memmove(m, dest, src, n) ==
    [x \in DOMAIN m |-> IF x >= dest /\ x < dest + n THEN RD(m, src + (x - dest)) ELSE m[x]]

EjectOutcome(status, S, x) == [status |-> status, S |-> S, x |-> x]

NoEject == [new_free_size_left |-> 0, shrunk |-> FALSE, em_csize |-> 0, node |-> 0,
            ro_csize |-> 0, ro_free_size_left |-> 0]

\* (root_container as *mut c_void).offset_from(emb_container)
eject_embedded_container_offset(root, emb) == root - emb

\* the block under `new_free_size_left > CONTAINER_MAX_FREESIZE`; checked: the
\* build may carry overflow checks
eject_container_shrink(S, x, ro_csize, ro_free_size_left, delta_, checked) ==
    LET used == ro_csize - (ro_free_size_left - delta_)
        container_increment == ContainerSizeIncrement
        tgt == (used \div container_increment)
                 + (IF used % container_increment # 0 THEN 1 ELSE 0)
        tgt_size == tgt * container_increment
        \* (ro_free_size_left as u32 - delta as u32) % container_increment: delta_ is
        \* negative, the difference wraps modulo 2^32, a multiple of the increment
        new_free_size == (ro_free_size_left - delta_) % container_increment
        root == S.etc.root_container
        Done(nb) ==
            [S EXCEPT !.mem = Relocate(S.mem, root, nb, ro_csize, tgt_size),
                      !.etc.root_container = nb,
                      !.container = [set_free_size_left(@, new_free_size)
                                       EXCEPT !.size = tgt_size]]
    IN  IF used <= 0
        THEN {EjectOutcome("assert", S, x)}
        ELSE (IF checked /\ delta_ < 0 THEN {EjectOutcome("overflow", S, x)} ELSE {})
             \cup {EjectOutcome("arena", S, x)}
             \cup {EjectOutcome(OK, Done(nb), [x EXCEPT !.shrunk = TRUE])
                     : nb \in NewBases(root)}

eject_container_after_expand(S, nd, realloc) ==
    LET root == S.etc.root_container
        emb  == S.etc.embedded_stack[1]
        child_offset == get_offset_child_container(S.mem, nd)
        embedded_container_offset == eject_embedded_container_offset(root, emb)
        em_csize == embedded_size(RD(S.mem, emb))
        ro_csize == S.container.size
        ro_free_size_left == S.container.free_bytes
        S1 == initialize_ejected_container(S, em_csize)
        p_new == S1.ejected.base
        moved == em_csize - SizeofEmbeddedContainer
        m1 == WriteBytes(S1.mem, p_new + ContainerHeadSize,
                         ReadBytes(S1.mem, emb + SizeofEmbeddedContainer, moved))
        new_free == S1.ejected.free_bytes - moved
        m2 == WR(m1, nd, set_child_container(RD(m1, nd), ChildLink))
        m3 == WriteBytes(m2, PtrAdd(nd, child_offset, SizeofCVoid), EjectedHandle)
        size == ro_csize - (em_csize + embedded_container_offset + ro_free_size_left)
        m4 == IF size > 0
              THEN memmove(m3, PtrAdd(nd, get_offset(m3, nd), SizeofCVoid),
                           PtrAdd(emb, em_csize, SizeofCVoid), size)
              ELSE m3
        delta_ == -1 * (em_csize - SizeofContainerLink)
        new_free_size_left == ro_free_size_left - delta_
        \* the embedded traversal context is taken out of ocx and its depth is 0
        \* when update_space_usage runs: no embedded container is billed
        S2 == update_space_usage(
                [S1 EXCEPT !.mem = m4,
                           !.ejected.free_bytes = new_free % 256,
                           !.etc.embedded_container_depth = 0], delta_)
        S3 == [S2 EXCEPT !.mem = ZeroFill(@, root + (ro_csize - new_free_size_left),
                                          new_free_size_left)]
        x  == [new_free_size_left |-> new_free_size_left, shrunk |-> FALSE,
               em_csize |-> em_csize, node |-> nd,
               ro_csize |-> ro_csize, ro_free_size_left |-> ro_free_size_left]
        \* the call from update_space_usage on; checked: the build may carry
        \* overflow checks
        rest(checked) ==
            IF ~(ro_csize > new_free_size_left)
            THEN {EjectOutcome("assert", S2, x)}
            ELSE IF new_free_size_left < 0
            \* ro_csize as usize - new_free_size_left as usize, then write_bytes of
            \* new_free_size_left as usize bytes
            THEN (IF checked THEN {EjectOutcome("overflow", S2, x)} ELSE {})
                 \cup {EjectOutcome("fault", S2, x)}
            ELSE IF new_free_size_left > CONTAINER_MAX_FREESIZE
            THEN eject_container_shrink(S3, x, ro_csize, ro_free_size_left, delta_, checked)
            ELSE {EjectOutcome(OK, S3, x)}
    IN  IF ~(ro_csize > em_csize)
        THEN {EjectOutcome("assert", S, x)}
        ELSE IF moved < 0
        \* em_csize as usize - size_of::<EmbeddedContainer>() below zero
        THEN (IF realloc THEN {} ELSE {EjectOutcome("overflow", S1, x)})
             \cup {EjectOutcome("fault", S1, x)}
        ELSE IF new_free < 0
        \* free_bytes() as u32 - (em_csize - 1) below zero: wraps where unchecked
        THEN (IF realloc THEN {} ELSE {EjectOutcome("overflow", S1, x)}) \cup rest(FALSE)
        ELSE rest(~realloc)

eject_container(S, n, o, cx) ==
    IF ~(S.etc.embedded_container_depth > 0)
    THEN {EjectOutcome("assert", S, NoEject)}
    ELSE UNION { IF e.status # OK
                 THEN {EjectOutcome(e.status, [e.S EXCEPT !.ejected = S.ejected], NoEject)}
                 ELSE eject_container_after_expand(e.S, e.ret, e.realloc)
                 : e \in meta_expand(S, cx, SizeofContainerLink) }

(***************************************************************************)
(* Initial states of the ejection runs: a root container holding a top     *)
(* node at offset 4 and, at offset 6, a sub node whose child is an         *)
(* embedded container, the only one on the stack; the traversal stands on  *)
(* the sub node.  A small root container of 64 bytes, and one of 320 bytes *)
(* whose embedded container is large enough for the ejection to leave more *)
(* free space than the free_bytes field holds.                             *)
(***************************************************************************)
EjectMemTop == 992
EjectRootBase == 352
EjectAddr == 0 .. EjectMemTop - 1

EjectNodeOffset == ContainerHeadSize + 2

\* base, size, size of the embedded container, free bytes
EjectLayouts ==
    {<<RootBase, 64, em, free>> : em \in {10, 20}, free \in {0, 8, 9, 20}}
    \cup {<<EjectRootBase, 320, 240, free>> : free \in {14, 30}}

\* the first byte of the root container's header
EjectHeadBytes == {12, 250}

InitEject ==
    \E t \in {InnerNode, LeafNodeWithValue}, d \in 0 .. 1, L \in EjectLayouts,
       hb \in EjectHeadBytes :
        LET base == L[1]
            size == L[2]
            em   == L[3]
            free == L[4]
            nb   == NodeByte(t, 1, d, ChildEmbeddedContainer)
            m0   == [a \in EjectAddr |->
                       IF a >= base + size - free /\ a < base + size THEN 0
                       ELSE IF a = base THEN hb
                       ELSE IF a = base + ContainerHeadSize THEN NodeByte(InnerNode, 0, 1, 0)
                       ELSE IF a = base + EjectNodeOffset THEN nb
                       ELSE Fill(a)]
            emb  == base + EjectNodeOffset + get_offset_child_container(m0, base + EjectNodeOffset)
        IN  /\ mem = WR(m0, emb, em)
            /\ container = [size |-> size, free_bytes |-> free]
            /\ ctx = [Ctx0 EXCEPT !.current_container_offset = EjectNodeOffset]
            /\ ocx = Ocx0
            /\ jump_context = JumpContext0
            /\ jump_table_sub_context = JumpTableSubContext0
            /\ etc = [root_container |-> base,
                      next_embedded_container |-> emb,
                      embedded_stack |-> [j \in 1 .. CONTAINER_MAX_EMBEDDED_DEPTH |->
                                            IF j = 1 THEN emb ELSE 0],
                      next_embedded_container_offset |-> 0,
                      embedded_container_depth |-> 1]
            /\ node = base + EjectNodeOffset
            /\ keybuf = << >>
            /\ ejected = NoEjected
            /\ call = NoCall
            /\ steps = 0

EjectS == [mem |-> mem, container |-> container, jump_context |-> jump_context,
           jump_table_sub_context |-> jump_table_sub_context, etc |-> etc,
           ejected |-> ejected]

EjectContainer ==
    /\ Running
    /\ \E r \in eject_container(EjectS, node, ocx, ctx) :
         /\ SetS(r.S)
         /\ ejected' = r.S.ejected
         /\ call' = Call("eject_container", node, r.status, ocx, r.x)
    /\ steps' = steps + 1
    /\ UNCHANGED <<ctx, ocx, node, keybuf>>

NextEject == EjectContainer \/ MetaExpand

SpecEject == InitEject /\ [][NextEject]_vars

(***************************************************************************)
(* C17: after eject_container, entered with embedded_container_depth > 0   *)
(* on a sub node whose child is the embedded container E at the bottom of  *)
(* the stack, has returned: the sub node's child_container is Link; the    *)
(* link slot at the sub node + offset_child_container holds the handle of  *)
(* a newly allocated container; that container's body, from its head size  *)
(* on, equals the size(E) - sizeof(EmbeddedContainer) body bytes E had;    *)
(* its free_bytes is its body size less that amount; and                   *)
(* embedded_container_depth is 0.                                          *)
(***************************************************************************)
C17_E == call.entry.etc.embedded_stack[1]

C17_ChildOffset == get_offset_child_container(call.entry.mem, call.node)

C17_IsEject ==
    /\ call.op = "eject_container"
    /\ call.rc = OK
    /\ call.entry.etc.embedded_container_depth > 0
    /\ child_container(RD(call.entry.mem, call.node)) = ChildEmbeddedContainer
    /\ C17_E = call.node + C17_ChildOffset

\* the sub node, in the container as it lies after the call
C17_Node == etc.root_container + (call.node - call.entry.etc.root_container)

C17_Moved == embedded_size(RD(call.entry.mem, C17_E)) - SizeofEmbeddedContainer

C17_EjectLinksNewContainer ==
    C17_IsEject =>
        /\ child_container(RD(mem, C17_Node)) = ChildLink
        /\ ejected.some
        /\ ReadBytes(mem, C17_Node + C17_ChildOffset, SizeofContainerLink) = EjectedHandle
        /\ ReadBytes(mem, ejected.base + ContainerHeadSize, C17_Moved)
             = ReadBytes(call.entry.mem, C17_E + SizeofEmbeddedContainer, C17_Moved)
        /\ ejected.free_bytes = (ejected.size - ContainerHeadSize) - C17_Moved
        /\ etc.embedded_container_depth = 0

(***************************************************************************)
(* C18: when eject_container has returned and the free space of the parent *)
(* after the embedded container E is removed (its free bytes after the     *)
(* expansion, plus size(E), less the link that replaces E) exceeds         *)
(* CONTAINER_MAX_FREESIZE, the parent's size is the smallest multiple of   *)
(* the size increment that is at least its live bytes (its size before,    *)
(* less that free space) and its free_bytes is that size less the live     *)
(* bytes, as integers that did not wrap; free_bytes is at most             *)
(* CONTAINER_MAX_FREESIZE and the size is a multiple of the increment.     *)
(***************************************************************************)
C18_NewFree ==
    call.x.ro_free_size_left + embedded_size(RD(call.entry.mem, C17_E)) - SizeofContainerLink

C18_Live == call.x.ro_csize - C18_NewFree

C18_Case == C17_IsEject /\ C18_NewFree > CONTAINER_MAX_FREESIZE

C18_ShrinkToLiveBytes ==
    C18_Case =>
        /\ container.size = increment_container_size(0, C18_Live)
        /\ container.free_bytes = container.size - C18_Live
        /\ container.free_bytes <= CONTAINER_MAX_FREESIZE
        /\ container.size % ContainerSizeIncrement = 0

(***************************************************************************)
(* safe_path_compressed_context(ocx): the header, the value and the        *)
(* residual key of the node's path-compressed leaf are copied into         *)
(* ocx.path_compressed_ejection_context.  Yields the outcomes of the call: *)
(* status and the operation context left.                                  *)
(***************************************************************************)
\* std::ptr::copy(src, dst, count) into a byte buffer, from its start
copy_into(buf, bytes) ==
    [i \in 1 .. Len(buf) |-> IF i <= Len(bytes) THEN bytes[i] ELSE buf[i]]

PecOutcome(status, o) == [status |-> status, ocx |-> o]

\* where the second copy of the value_present branch reads node_value from
safe_path_compressed_context_value_source(pc_node) ==
    PtrAdd(PtrAdd(pc_node, SizeofPathCompressedNodeHeader, SizeofCVoid),
           SizeofNodeValue, SizeofCVoid)

safe_path_compressed_context(m, n, o) ==
    LET pc_node == as_raw_compressed(m, n)
        head    == RD(m, pc_node)
        pec0    == PathCompressedEjectionContextDefault
        o0      == [o EXCEPT !.path_compressed_ejection_context =
                               [some |-> TRUE, pec |-> pec0]]
        key_at  == IF value_present(head) = 1
                   THEN PtrAdd(PtrAdd(pc_node, SizeofPathCompressedNodeHeader, SizeofCVoid),
                               SizeofNodeValue, SizeofCVoid)
                   ELSE PtrAdd(pc_node, SizeofPathCompressedNodeHeader, SizeofCVoid)
        key_len == IF value_present(head) = 1
                   THEN pc_size(head) - (SizeofPathCompressedNodeHeader + SizeofNodeValue)
                   ELSE pc_size(head) - SizeofPathCompressedNodeHeader
        pec1    == [pec0 EXCEPT !.partial_key = copy_into(@, ReadBytes(m, key_at, key_len))]
        pec2    == IF value_present(head) = 1
                   THEN [pec1 EXCEPT !.node_value =
                           ReadBytes(m, safe_path_compressed_context_value_source(pc_node),
                                     SizeofNodeValue)]
                   ELSE pec1
        pec3    == [pec2 EXCEPT !.pec_valid = 1, !.path_compressed_node_header = head]
    IN  IF key_len < 0
        \* the count, a usize, falls below zero
        THEN {PecOutcome("overflow", o0), PecOutcome("fault", o0)}
        ELSE {PecOutcome(OK, [o EXCEPT !.path_compressed_ejection_context =
                                         [some |-> TRUE, pec |-> pec3]])}

SafePathCompressedContext ==
    /\ Running
    /\ \E r \in safe_path_compressed_context(mem, node, ocx) :
         /\ ocx' = r.ocx
         /\ call' = Call("safe_path_compressed_context", node, r.status, ocx, [none |-> 0])
    /\ steps' = steps + 1
    /\ UNCHANGED <<mem, container, ctx, jump_context, jump_table_sub_context, etc,
                   node, keybuf, ejected>>

NextPec == SafePathCompressedContext \/ UpdatePathCompressedNode

SpecPec == InitPC /\ [][NextPec]_vars

(***************************************************************************)
(* C21: after safe_path_compressed_context on a sub node with a            *)
(* path-compressed leaf has returned, the ejection context is present with *)
(* pec_valid = 1; its header copy is the leaf's header byte; the first     *)
(* residual_key_len bytes of partial_key are the leaf's residual key       *)
(* bytes; and, when the leaf has value_present = 1, its node_value is the  *)
(* value record that lies in the leaf directly after the header.           *)
(***************************************************************************)
C21_Leaf == as_raw_compressed(call.entry.mem, call.node)

C21_Head == RD(call.entry.mem, C21_Leaf)

C21_ResidualLen ==
    pc_size(C21_Head) - SizeofPathCompressedNodeHeader - value_present(C21_Head) * SizeofNodeValue

C21_IsSafe ==
    /\ call.op = "safe_path_compressed_context"
    /\ call.rc = OK
    /\ child_container(RD(call.entry.mem, call.node)) = ChildPathCompressed
    /\ C21_ResidualLen >= 0

C21_ContextHoldsLeaf ==
    C21_IsSafe =>
        LET c == ocx.path_compressed_ejection_context
        IN  /\ c.some
            /\ c.pec.pec_valid = 1
            /\ c.pec.path_compressed_node_header = C21_Head
            /\ SubSeq(c.pec.partial_key, 1, C21_ResidualLen)
                 = ReadBytes(call.entry.mem,
                             C21_Leaf + SizeofPathCompressedNodeHeader
                               + value_present(C21_Head) * SizeofNodeValue,
                             C21_ResidualLen)
            /\ (value_present(C21_Head) = 1 =>
                  c.pec.node_value
                    = ReadBytes(call.entry.mem, C21_Leaf + SizeofPathCompressedNodeHeader,
                                SizeofNodeValue))

(***************************************************************************)
(* use_sub_node_jump_table(ctx): the traversal skips the top node and,     *)
(* through its sub-level jump table, the sub nodes of the buckets below    *)
(* the one of ctx.second_char.  Yields the outcomes of the call: status,   *)
(* the traversal context left, the value returned.                         *)
(***************************************************************************)
SUBLEVEL_JUMPTABLE_SHIFTBITS == 5

\* second_char >> bits and jump_class << bits on u8
shr_u8(b, bits) == b \div (2 ^ bits)
shl_u8(b, bits) == (b * (2 ^ bits)) % 256

get_offset_jump_table(m, n) == get_offset_jump(m, n) + jump_successor(RD(m, n)) * SizeofU16

SkipOutcome(status, cx, ret) == [status |-> status, ctx |-> cx, ret |-> ret]

\* *jump_table_pointer + (jump_class as u16 - 1)
use_sub_node_jump_table_skip(m, jump_table_pointer, jump_class) ==
    ReadU16(m, jump_table_pointer) + (jump_class - 1)

use_sub_node_jump_table(m, n, cx) ==
    LET jump_class == shr_u8(cx.second_char, SUBLEVEL_JUMPTABLE_SHIFTBITS)
        jump_table_pointer == PtrAdd(n, get_offset_jump_table(m, n), SizeofNodeHeader)
        skip == use_sub_node_jump_table_skip(m, jump_table_pointer, jump_class)
        Done(by) == SkipOutcome(OK, [cx EXCEPT !.current_container_offset =
                                                 @ + get_offset(m, n) + by],
                                shl_u8(jump_class, SUBLEVEL_JUMPTABLE_SHIFTBITS))
    IN  IF jump_class > 0
        THEN \* a u16 read through a pointer that may be odd: a build with debug
             \* assertions aborts on the misaligned dereference
             (IF jump_table_pointer % SizeofU16 # 0
              THEN {SkipOutcome("assert", cx, 0)} ELSE {})
             \cup
             (IF skip > 65535
              THEN {SkipOutcome("overflow", cx, 0), Done(skip % 65536)}
              ELSE {Done(skip)})
        ELSE {SkipOutcome(OK, [cx EXCEPT !.current_container_offset = @ + get_offset(m, n)],
                          0)}

(***************************************************************************)
(* Initial states of the jump-table runs: a top node of every type, delta  *)
(* and jump bits at offset 4; where its sub-level jump table lies, seven   *)
(* 16-bit entries; second_char in every bucket.                            *)
(***************************************************************************)
SecondChars == {0, 31, 32, 64, 100, 224, 255}

\* the sub-level jump table: bytes skipped to reach bucket i + 1
JumpTableEntry(i) == 20 + 37 * i

JumpTableBytes ==
    [j \in 1 .. SizeofTopNodeJumpTable |->
        IF j % 2 = 1 THEN JumpTableEntry((j - 1) \div 2) % 256
        ELSE JumpTableEntry((j - 1) \div 2) \div 256]

InitSkip ==
    \E t \in 0 .. 3, d \in 0 .. 1, low \in 0 .. 3, sc \in SecondChars :
        LET n  == RootBase + ContainerHeadSize
            m0 == [a \in Addr |-> IF a = n THEN NodeByte(t, 0, d, low) ELSE Fill(a)]
        IN  /\ mem = WriteBytes(m0, n + get_offset_jump_table(m0, n), JumpTableBytes)
            /\ container = [size |-> 224, free_bytes |-> 8]
            /\ ctx = [Ctx0 EXCEPT !.second_char = sc]
            /\ ocx = Ocx0
            /\ jump_context = JumpContext0
            /\ jump_table_sub_context = JumpTableSubContext0
            /\ etc = Etc0
            /\ node = n
            /\ keybuf = << >>
            /\ ejected = NoEjected
            /\ call = NoCall
            /\ steps = 0

UseSubNodeJumpTable ==
    /\ Running
    /\ \E r \in use_sub_node_jump_table(mem, node, ctx) :
         /\ ctx' = r.ctx
         /\ call' = Call("use_sub_node_jump_table", node, r.status, ocx, [ret |-> r.ret])
    /\ steps' = steps + 1
    /\ UNCHANGED <<mem, container, ocx, jump_context, jump_table_sub_context, etc,
                   node, keybuf, ejected>>

NextSkip == UseSubNodeJumpTable

SpecSkip == InitSkip /\ [][NextSkip]_vars

(***************************************************************************)
(* C22: after use_sub_node_jump_table on a top node with a sub-level jump  *)
(* table has returned, with k the high 3 bits of second_char: for k = 0    *)
(* current_container_offset has advanced by the top node's size            *)
(* (header, char byte unless delta-encoded, successor jump, jump table,    *)
(* value) and 0 is returned; for k >= 1 it has advanced by that size plus  *)
(* the 16-bit table entry of index k - 1, and k * 32 is returned.          *)
(***************************************************************************)
C22_Head == RD(call.entry.mem, call.node)

C22_TopNodeSize ==
    SizeofNodeHeader + (IF delta(C22_Head) = 0 THEN 1 ELSE 0)
      + jump_successor(C22_Head) * SizeofU16
      + jump_table(C22_Head) * SizeofTopNodeJumpTable
      + (IF type_flag(C22_Head) = LeafNodeWithValue THEN SizeofNodeValue ELSE 0)

C22_K == call.entry.ctx.second_char \div 32

C22_TableEntry(i) ==
    ReadU16(call.entry.mem,
            call.node + SizeofNodeHeader + (IF delta(C22_Head) = 0 THEN 1 ELSE 0)
              + jump_successor(C22_Head) * SizeofU16 + SizeofU16 * i)

C22_IsSkip ==
    /\ call.op = "use_sub_node_jump_table"
    /\ call.rc = OK
    /\ is_top_node(C22_Head)
    /\ jump_table(C22_Head) = 1

C22_SkipsToBucket ==
    C22_IsSkip =>
        LET advanced == ctx.current_container_offset
                          - call.entry.ctx.current_container_offset
        IN  IF C22_K = 0
            THEN advanced = C22_TopNodeSize /\ call.x.ret = 0
            ELSE /\ advanced = C22_TopNodeSize + C22_TableEntry(C22_K - 1)
                 /\ call.x.ret = C22_K * 32

(***************************************************************************)
(* The indices at which the operations on embedded containers read or      *)
(* write embedded_stack (or new_expand_embedded's local copy of it).       *)
(***************************************************************************)
\* new_expand_embedded, the snapshot loop: for i in (0..next_embedded_container_offset).rev()
new_expand_embedded_snapshot_indices(S) ==
    {j - 1 : j \in 1 .. S.etc.next_embedded_container_offset}

\* new_expand_embedded, the rebase loop: for i in (0..embedded_container_depth).rev()
new_expand_embedded_rebase_indices(S) ==
    {j - 1 : j \in 1 .. S.etc.embedded_container_depth}

\* add_embedded_container: embedded_stack[embedded_container_depth] = ...
add_embedded_container_stack_index(S) == S.etc.embedded_container_depth

\* eject_container: &mut emb_context.embedded_stack[0]
eject_container_stack_index == 0

(***************************************************************************)
(* Initial states of the runs over the embedded stack: those of the        *)
(* embedding and of the ejection runs, and a traversal 27 embedded         *)
(* containers deep, each container holding a top node, a sub node and the  *)
(* next container, standing on the innermost sub node without a child.     *)
(***************************************************************************)
DeepDepth == 27

\* byte offset, from the container base, of the embedded container of level j
DeepOffset(j) == 8 + 3 * (j - 1)

InitDeep ==
    \E free \in {0, 1, 8}, d \in 1 .. 2 :
        LET neco == DeepOffset(DeepDepth)
            off  == neco + 2
            used == off + 1
            m0   == [a \in Addr |->
                       IF a >= RootBase + 128 - free /\ a < RootBase + 128 THEN 0
                       ELSE IF \E j \in 1 .. DeepDepth : a = RootBase + DeepOffset(j)
                       THEN used - (a - RootBase)
                       ELSE IF a >= RootBase + 6 /\ a <= RootBase + off
                               /\ (a - RootBase) % 3 = 0
                       THEN NodeByte(InnerNode, 0, d, 0)
                       ELSE IF a >= RootBase + 6 /\ a <= RootBase + off
                       THEN NodeByte(InnerNode, 1, d,
                                     IF a = RootBase + off THEN ChildNone
                                     ELSE ChildEmbeddedContainer)
                       ELSE Fill(a)]
        IN  /\ mem = m0
            /\ container = [size |-> 128, free_bytes |-> free]
            /\ ctx = [Ctx0 EXCEPT !.current_container_offset = off - neco]
            /\ ocx = [Ocx0 EXCEPT !.next_container_pointer = Ptr(1)]
            /\ jump_context = JumpContext0
            /\ jump_table_sub_context = JumpTableSubContext0
            /\ etc = [root_container |-> RootBase,
                      next_embedded_container |-> RootBase + neco,
                      embedded_stack |-> [j \in 1 .. CONTAINER_MAX_EMBEDDED_DEPTH |->
                                            IF j <= DeepDepth THEN RootBase + DeepOffset(j)
                                            ELSE 0],
                      next_embedded_container_offset |-> neco,
                      embedded_container_depth |-> DeepDepth]
            /\ node = RootBase + off
            /\ keybuf = << >>
            /\ ejected = NoEjected
            /\ call = NoCall
            /\ steps = 0

InitStack == InitEmbed \/ InitEject \/ InitDeep

NextStack == AddEmbeddedContainer \/ MetaExpand \/ NewExpandEmbedded \/ EjectContainer

SpecStack == InitStack /\ [][NextStack]_vars

(***************************************************************************)
(* C23: in every state reached by add_embedded_container, meta_expand /    *)
(* new_expand_embedded and eject_container, embedded_container_depth lies  *)
(* in 0 .. CONTAINER_MAX_EMBEDDED_DEPTH; every index at which the call     *)
(* just returned read or wrote embedded_stack lies in                      *)
(* 0 .. embedded_container_depth (as on entry) and below                   *)
(* CONTAINER_MAX_EMBEDDED_DEPTH; and no call aborts on an out-of-range     *)
(* index.                                                                  *)
(***************************************************************************)
C23_IndicesUsed ==
    IF /\ call.op \in {"new_expand_embedded", "meta_expand"}
       /\ call.rc = OK
       /\ call.x.variant = "embedded"
       /\ call.x.realloc
    THEN new_expand_embedded_snapshot_indices(call.entry)
           \cup new_expand_embedded_rebase_indices(call.entry)
    ELSE IF call.op = "add_embedded_container" /\ call.rc = OK
    THEN {add_embedded_container_stack_index(call.entry)}
    ELSE IF call.op = "eject_container" /\ call.rc = OK
    THEN {eject_container_stack_index}
    ELSE {}

C23_StackIndicesInRange ==
    /\ etc.embedded_container_depth >= 0
    /\ etc.embedded_container_depth <= CONTAINER_MAX_EMBEDDED_DEPTH
    /\ call.rc # "bounds"
    /\ \A i \in C23_IndicesUsed :
          /\ i >= 0
          /\ i <= call.entry.etc.embedded_container_depth
          /\ i < CONTAINER_MAX_EMBEDDED_DEPTH

(***************************************************************************)
(* The runs over the placement of a node's value: get_offset_node_value    *)
(* and set_node_value on one node of every header byte.                    *)
(***************************************************************************)
GetOffsetNodeValue ==
    /\ Running
    /\ ReadOnlyCall("get_offset_node_value", [result |-> get_offset_node_value(mem, node)])

NextValue == GetOffsetNodeValue \/ SetNodeValue

SpecValue == InitScan /\ [][NextValue]_vars

(***************************************************************************)
(* C24: for a top node of type LeafWithValue, whatever its delta,          *)
(* jump_successor and jump_table bits, the value record                    *)
(* [get_offset_node_value, get_offset_node_value + sizeof(Value)) begins   *)
(* behind the header byte, the char byte present when delta = 0, the       *)
(* successor-jump field and the sub-level jump table, and ends where the   *)
(* node ends: get_offset_node_value + sizeof(Value) = get_offset_top_node; *)
(* and set_node_value with a value leaves the node's char byte and jump    *)
(* data as they were.                                                      *)
(***************************************************************************)
C24_Head == RD(call.entry.mem, call.node)

\* header byte, char byte, successor-jump field, jump table
C24_BeforeValue ==
    SizeofNodeHeader + (IF delta(C24_Head) = 0 THEN 1 ELSE 0)
      + jump_successor(C24_Head) * SizeofU16
      + jump_table(C24_Head) * SizeofTopNodeJumpTable

C24_ValueRecordPlaced ==
    /\ (/\ call.op = "get_offset_node_value"
        /\ is_top_node(C24_Head)
        /\ type_flag(C24_Head) = LeafNodeWithValue)
       => /\ call.x.result >= C24_BeforeValue
          /\ call.x.result + SizeofNodeValue
               = get_offset_top_node(call.entry.mem, call.node)
    /\ (/\ call.op = "set_node_value"
        /\ is_top_node(C24_Head)
        /\ type_flag(C24_Head) = LeafNodeWithValue
        /\ is_some(call.entry.ocx.input_value))
       => \A i \in 1 .. C24_BeforeValue - 1 :
             RD(mem, call.node + i) = RD(call.entry.mem, call.node + i)

=============================================================================
